---------------------------- MODULE Spec2Model ----------------------------
(***************************************************************************)
(* FAQ retrieval service of as-chatbot-poc: the embedding adapter          *)
(* (embeddings.js), the Qdrant adapter (qdrant.js), the sync orchestrator  *)
(* (sync.js) and its script (syncScript.js, createIndex.js), the           *)
(* vector-strategy retrieval (getFaqContext) and the lexical strategy      *)
(* with its cache (index.js).                                              *)
(*                                                                         *)
(* One action is one turn of the Node event loop: the completion of an    *)
(* awaited I/O call together with every synchronous continuation that     *)
(* runs before the next await.                                             *)
(*                                                                         *)
(* JavaScript strings are sequences of one-character strings; JavaScript   *)
(* values are tagged records (undefined, string, number, array).           *)
(***************************************************************************)
EXTENDS Integers, Sequences, FiniteSets, TLC

(***************************************************************************)
(* Bounds of the model.                                                    *)
(***************************************************************************)
MaxTexts == 11        \* longest texts array handed to generateEmbeddingsBatch directly
MaxFaqs == 2          \* longest source feed of a sync run
MaxRuns == 2          \* sync runs per behaviour
MaxPoints == 2        \* longest points list handed to upsertPoints directly
MaxTicks == 3           \* ticks of the clock in a behaviour
TICK_MS == 30000        \* milliseconds per tick of the clock

(***************************************************************************)
(* Program constants.                                                      *)
(***************************************************************************)
batchSize == 10                  \* embeddings.js:63
BATCH_DELAY_MS == 100            \* embeddings.js:87
DEFAULT_DIMENSIONS == 3072       \* qdrant.js:50
EXPECTED_DIMENSIONS == 3072      \* qdrant.js:121
README_DIMENSIONS == 768         \* faq/README.md:9

(***************************************************************************)
(* JavaScript values.                                                      *)
(***************************************************************************)
Undef == [t |-> "undef"]
Null == [t |-> "null"]
Str(s) == [t |-> "str", s |-> s]
Num(n) == [t |-> "num", n |-> n]
NaN == [t |-> "nan"]
\* an embedding vector: `len` numbers computed by the provider from text `of`
Vec(n, text) == [t |-> "arr", len |-> n, of |-> text]
\* an object with the properties f
Obj(f) == [t |-> "obj", f |-> f]
EmptyObj == Obj(<<>>)

IsStr(v) == v.t = "str"
IsArr(v) == v.t = "arr"

\* JavaScript truthiness (!v is ~Truthy(v))
Truthy(v) ==
    CASE v.t = "str" -> v.s # <<>>
      [] v.t = "num" -> v.n # 0
      [] v.t = "arr" -> TRUE
      [] v.t = "obj" -> TRUE
      [] OTHER -> FALSE

\* a || b
JsOr(a, b) == IF Truthy(a) THEN a ELSE b

IsSpace(c) == c \in {" ", "\n", "\t"}

RECURSIVE TrimStart(_)
TrimStart(s) ==
    IF s = <<>> THEN <<>>
    ELSE IF IsSpace(Head(s)) THEN TrimStart(Tail(s)) ELSE s

RECURSIVE TrimEnd(_)
TrimEnd(s) ==
    IF s = <<>> THEN <<>>
    ELSE IF IsSpace(s[Len(s)]) THEN TrimEnd(SubSeq(s, 1, Len(s) - 1)) ELSE s

\* String.prototype.trim
Trim(s) == TrimEnd(TrimStart(s))

IsDigit(c) == c \in {"0", "1", "2", "3", "4", "5", "6", "7", "8", "9"}

DigitVal(c) ==
    CASE c = "0" -> 0 [] c = "1" -> 1 [] c = "2" -> 2 [] c = "3" -> 3
      [] c = "4" -> 4 [] c = "5" -> 5 [] c = "6" -> 6 [] c = "7" -> 7
      [] c = "8" -> 8 [] c = "9" -> 9

\* String.prototype.charCodeAt(0) on the characters the model uses
CharCode(c) ==
    CASE IsDigit(c) -> 48 + DigitVal(c)
      [] c = " " -> 32
      [] c = "\n" -> 10
      [] c = "\t" -> 9
      [] c = "+" -> 43
      [] c = "-" -> 45
      [] c = "_" -> 95
      [] c = "a" -> 97
      [] c = "b" -> 98
      [] c = "c" -> 99
      [] c = "f" -> 102
      [] c = "h" -> 104
      [] c = "k" -> 107
      [] c = "q" -> 113
      [] c = "x" -> 120

\* the longest prefix of s made of digits
RECURSIVE DigitPrefix(_)
DigitPrefix(s) ==
    IF s = <<>> \/ ~IsDigit(Head(s)) THEN <<>>
    ELSE <<Head(s)>> \o DigitPrefix(Tail(s))

RECURSIVE DigitsValue(_)
DigitsValue(s) ==
    IF s = <<>> THEN 0
    ELSE 10 * DigitsValue(SubSeq(s, 1, Len(s) - 1)) + DigitVal(s[Len(s)])

\* the decimal digits of a natural number
RECURSIVE Decimal(_)
Decimal(n) ==
    LET d == <<"0", "1", "2", "3", "4", "5", "6", "7", "8", "9">>
    IN IF n < 10 THEN <<d[n + 1]>> ELSE Decimal(n \div 10) \o <<d[(n % 10) + 1]>>

\* String(v) of a string or an integer
JsString(v) ==
    IF IsStr(v) THEN v.s
    ELSE IF v.n < 0 THEN <<"-">> \o Decimal(0 - v.n) ELSE Decimal(v.n)

\* Number(v) for an environment variable: undefined or a string
JsNumber(v) ==
    IF ~IsStr(v) THEN NaN
    ELSE LET s == Trim(v.s)
         IN IF s = <<>> THEN Num(0)
            ELSE IF DigitPrefix(s) = s THEN Num(DigitsValue(s)) ELSE NaN


\* a JavaScript array of arbitrary items
List(items) == [t |-> "arr", items |-> items]

\* array.length of either kind of array
ArrLen(v) == IF "items" \in DOMAIN v THEN Len(v.items) ELSE v.len

Min(a, b) == IF a < b THEN a ELSE b

(***************************************************************************)
(* State.                                                                  *)
(***************************************************************************)
VARIABLES
    env,            \* process.env as read at module load, and the provider's output dimension
    pending,        \* model.embedContent calls in flight
    remoteCalls,    \* number of model.embedContent calls issued so far
    embed,          \* a direct generateEmbedding call: [pc, text, ...]
    batch,          \* the generateEmbeddingsBatch activation: [pc, gen, caller, texts, i, ...]
    collection,     \* the target collection at the Qdrant server: [exists, size, distance]
    index,          \* the points of the collection: point id -> [vector, payload]
    qdrantClient,   \* qdrant.js line 6: the module's client, Null until first use
    upsert,         \* the upsertPoints activation: [pc, caller, arg, prepared, ...]
    sync,           \* the syncFaqs activation: [pc, run, faqs, faqData, log, ...]
    query,          \* the getFaqContext activation of the vector strategy
    search,         \* a direct searchVectors call: [pc, args, results, err]
    format,         \* a direct call of the two formatFaqContext functions
    cache,          \* index.js lines 17 to 20: the FAQ cache [value, expiresAt]
    now,            \* Date.now(), in milliseconds
    lexical,        \* the getFaqContext activations of the lexical strategy
    adapter,        \* a testConnection, ensureQdrantCollection, getCollectionInfo or deletePoint call
    script          \* syncScript.js: main()'s position and the process exit code (Null while running)

embedVars == <<pending, remoteCalls>>
qdrantVars == <<collection, index, qdrantClient>>
lexVars == <<cache, now, lexical>>
scriptVars == <<adapter, script>>
vars == <<env, pending, remoteCalls, embed, batch, collection, index, qdrantClient,
          upsert, sync, query, search, format, cache, now, lexical, adapter, script>>

EmbedIdle == [pc |-> "idle"]
SearchIdle == [pc |-> "idle", args |-> Undef, req |-> Undef, results |-> <<>>, err |-> ""]
FormatIdle == [pc |-> "idle", faqs |-> <<>>, vector |-> Undef, lexical |-> Undef]

\* index.js lines 17 to 20: the cache as the module is loaded
CacheEmpty == [value |-> Null, expiresAt |-> 0]

\* the conversations that may be inside the lexical getFaqContext at once
Callers == {"c1", "c2"}
LexIdle ==
    [pc |-> "idle", query |-> Undef, now |-> 0, hit |-> FALSE, failed |-> FALSE,
     faqs |-> Undef, relevant |-> Undef, out |-> Undef]
\* no adapter call of the kinds above was made yet
AdapterIdle ==
    [op |-> "none", pc |-> "idle", arg |-> Undef, client |-> Null, failure |-> Undef,
     out |-> Undef]
\* main() has not started
ScriptIdle == [pc |-> "idle", exit |-> Null, first |-> Null, result |-> Null]
BatchIdle ==
    [pc |-> "idle", gen |-> 0, caller |-> "none", texts |-> <<>>, i |-> 0,
     results |-> <<>>, embeddings |-> <<>>, log |-> <<>>, err |-> "", reordered |-> FALSE]

(***************************************************************************)
(* embeddings.js: generateEmbedding                                        *)
(***************************************************************************)
\* mutant: the text check without the trim
EmbedPrecheck_NoTrim(key, text) ==
    IF ~Truthy(key) THEN "GOOGLE_KEY is not configured"
    ELSE IF ~Truthy(text) \/ ~IsStr(text) THEN "Text must be a non-empty string"
    ELSE IF Trim(key.s) = <<>> THEN "GOOGLE_KEY is empty or not set"
    ELSE "ok"

\* the checks generateEmbedding makes before it calls the provider
\* (lines 14, 18 and 23); "ok" when the remote call is issued
EmbedPrecheck(key, text) ==
    IF ~Truthy(key) THEN "GOOGLE_KEY is not configured"
    ELSE IF ~Truthy(text) \/ ~IsStr(text) \/ Trim(text.s) = <<>>
         THEN "Text must be a non-empty string"
    ELSE IF ~Truthy(key) \/ Trim(key.s) = <<>>
         THEN "GOOGLE_KEY is empty or not set"
    ELSE "ok"

\* the states of a promise
Pending == [st |-> "pending"]
Resolved(v) == [st |-> "resolved", v |-> v]
Rejected(e) == [st |-> "rejected", err |-> e]

\* what generateEmbedding makes of the provider's answer (lines 31 to 49)
EmbedAccept(resp) ==
    IF resp.t = "error" THEN Rejected("RemoteError")
    ELSE LET embedding == resp.values
         IN IF ~Truthy(embedding) \/ ~IsArr(embedding) \/ ArrLen(embedding) = 0
            THEN Rejected("Failed to generate embedding: empty result")
            ELSE Resolved(embedding)

\* the answers model.embedContent can give for `text`: a transport or API
\* error, a body without values, values that are no array, an empty vector,
\* or a vector of the provider model's dimension
RemoteResponses(text) ==
    { [t |-> "error"],
      [t |-> "ok", values |-> Undef],
      [t |-> "ok", values |-> Str(<<"x">>)],
      [t |-> "ok", values |-> Vec(0, text)],
      [t |-> "ok", values |-> Vec(env.modelDim, text)] }

RemoteCall(owner, gen, pos, text) ==
    [owner |-> owner, gen |-> gen, pos |-> pos, text |-> text]

\* embeddings.js line 4: the credential the module captured at load
GOOGLE_API_KEY == JsOr(env.GOOGLE_KEY, env.GOOGLE_API_KEY)

GoogleKeys == {Undef, Str(<<>>), Str(<<" ">>), Str(<<"k">>)}
DimSettings == {Undef, Str(<<"7", "6", "8">>)}
UrlSettings == {Undef, Str(<<"h">>)}
ModelDims == {README_DIMENSIONS, DEFAULT_DIMENSIONS}

Envs(keys, altKeys, dims, urls, modelDims) ==
    [GOOGLE_KEY : keys, GOOGLE_API_KEY : altKeys,
     FAQ_EMBEDDING_DIMENSIONS : dims, FAQ_API_URL : urls, modelDim : modelDims]

(***************************************************************************)
(* embeddings.js: generateEmbeddingsBatch                                  *)
(***************************************************************************)
\* mutant: an off-by-one slice of batchSize + 1 texts
Slice_Wide(b) == (b.i + 1) .. Min(b.i + batchSize + 1, Len(b.texts))

\* texts.slice(i, i + batchSize), as positions 1..texts.length
Slice(b) == (b.i + 1) .. Min(b.i + batchSize, Len(b.texts))

\* mutant: results are collected in the order the calls complete
PlaceResult_Arrival(results, pos, r) ==
    LET free == {p \in DOMAIN results : results[p] = Pending}
    IN [results EXCEPT ![CHOOSE p \in free : \A q \in free : p <= q] = r]

\* Promise.all stores a fulfilled value at the position of its promise
PlaceResult(results, pos, r) == [results EXCEPT ![pos] = r]

\* the calls of the slice that pass generateEmbedding's checks: their
\* model.embedContent requests go out while batch.map runs
IssuedCalls(b) ==
    { RemoteCall("batch", b.gen, p, b.texts[p]) :
        p \in {q \in Slice(b) : EmbedPrecheck(GOOGLE_API_KEY, b.texts[q]) = "ok"} }

\* lines 71 to 80: one iteration of the loop up to `await Promise.all`.  A
\* call whose checks fail is a promise already rejected, and Promise.all
\* rejects with the first of them in array order.
BatchIssue(b) ==
    LET slice == Slice(b)
        pre == [p \in slice |-> EmbedPrecheck(GOOGLE_API_KEY, b.texts[p])]
        bad == {p \in slice : pre[p] # "ok"}
    IN [b EXCEPT
          !.pc = IF bad = {} THEN "awaitAll" ELSE "threw",
          !.results = IF bad = {} THEN [p \in slice |-> Pending] ELSE <<>>,
          !.log = Append(@, [e |-> "issue", slice |-> slice]),
          !.err = IF bad = {} THEN "" ELSE pre[CHOOSE p \in bad : \A q \in bad : p <= q]]

\* lines 59 to 69: the entry of generateEmbeddingsBatch(texts)
BatchBegin(texts, gen, caller) ==
    IF ~Truthy(texts) \/ ~IsArr(texts) \/ ArrLen(texts) = 0
    THEN [BatchIdle EXCEPT !.pc = "returned", !.gen = gen, !.caller = caller]
    ELSE BatchIssue([BatchIdle EXCEPT !.gen = gen, !.caller = caller, !.texts = texts.items])

\* mutant: a partial-success policy: a rejected call is skipped and the loop
\* goes on with the vectors of the calls that were fulfilled
BatchSettle_Partial(b, pos, r) ==
    IF b.pc # "awaitAll" THEN b
    ELSE LET res == PlaceResult(b.results, pos, r)
             n == Cardinality(Slice(b))
             got == SelectSeq([k \in 1..n |-> res[b.i + k]], LAMBDA x : x.st = "resolved")
             all == b.embeddings \o [k \in 1..Len(got) |-> got[k].v]
         IN IF \E p \in DOMAIN res : res[p] = Pending
            THEN [b EXCEPT !.results = res]
            ELSE IF b.i + batchSize < Len(b.texts)
            THEN [b EXCEPT !.pc = "delay", !.results = res, !.embeddings = all,
                           !.log = Append(@, [e |-> "delay", ms |-> BATCH_DELAY_MS])]
            ELSE [b EXCEPT !.pc = "returned", !.results = res, !.embeddings = all]

\* lines 80 to 92: the promise at `pos` settles with r.  A rejection rejects
\* Promise.all and the function throws; the last fulfilment resumes the loop:
\* push the results, then either arm the timer or return.
BatchSettle(b, pos, r) ==
    IF b.pc # "awaitAll" THEN b
    ELSE IF r.st = "rejected"
    THEN [b EXCEPT !.pc = "threw", !.err = r.err, !.results = <<>>]
    ELSE LET res == PlaceResult(b.results, pos, r)
             n == Cardinality(Slice(b))
             all == b.embeddings \o [k \in 1..n |-> res[b.i + k].v]
             \* history: a call completed while an earlier one of its batch was pending
             early == b.reordered \/ \E q \in DOMAIN b.results : q < pos /\ b.results[q] = Pending
         IN IF \E p \in DOMAIN res : res[p] = Pending
            THEN [b EXCEPT !.results = res, !.reordered = early]
            ELSE IF b.i + batchSize < Len(b.texts)
            THEN [b EXCEPT !.pc = "delay", !.results = res, !.embeddings = all,
                           !.reordered = early,
                           !.log = Append(@, [e |-> "delay", ms |-> BATCH_DELAY_MS])]
            ELSE [b EXCEPT !.pc = "returned", !.results = res, !.embeddings = all,
                           !.reordered = early]

\* lines 70 and 86 to 88: the timer fires and the loop starts its next iteration
BatchResume(b) == BatchIssue([b EXCEPT !.i = @ + batchSize])

(***************************************************************************)
(* qdrant.js                                                               *)
(***************************************************************************)
\* mutant: every call constructs a new client
GetQdrantClient_Fresh(client) == [made |-> IF client = Null THEN 1 ELSE client.made + 1]

\* lines 12 to 30: getQdrantClient constructs the client on first use only
GetQdrantClient(client) == IF client = Null THEN [made |-> 1] ELSE client

\* line 50: the dimension ensureCollection declares
EMBEDDING_DIMENSIONS ==
    LET n == JsNumber(env.FAQ_EMBEDDING_DIMENSIONS)
    IN IF Truthy(n) THEN n.n ELSE DEFAULT_DIMENSIONS

NoCollection == [exists |-> FALSE]

\* mutant: the listing is never found to contain the collection
collectionExists_Never == FALSE

\* lines 43 to 45: whether the listing of getCollections names the collection
collectionExists == collection.exists

\* lines 52 to 57: the collection createCollection asks for
CreatedCollection ==
    [exists |-> TRUE, size |-> EMBEDDING_DIMENSIONS, distance |-> "Cosine"]

StartsWith(s, prefix) ==
    Len(s) >= Len(prefix) /\ SubSeq(s, 1, Len(prefix)) = prefix

\* parseInt(s, 10): leading white space, an optional sign, then the longest
\* run of digits; NaN when there is none
ParseInt(s) ==
    LET t == TrimStart(s)
        signed == t # <<>> /\ Head(t) \in {"-", "+"}
        digits == DigitPrefix(IF signed THEN Tail(t) ELSE t)
    IN IF digits = <<>> THEN NaN
       ELSE IF signed /\ Head(t) = "-" THEN Num(0 - DigitsValue(digits))
       ELSE Num(DigitsValue(digits))

RECURSIVE CharSum(_)
\* s.split('').reduce((acc, char) => acc + char.charCodeAt(0), 0)
CharSum(s) == IF s = <<>> THEN 0 ELSE CharCode(Head(s)) + CharSum(Tail(s))

Abs(n) == IF n < 0 THEN 0 - n ELSE n

\* mutant: the id is allocated from the number of points already stored
PointId_Counter(id) == Cardinality(DOMAIN index) + 1

\* lines 127 to 141: the numeric point id of an external identifier
PointId(id) ==
    LET hash == IF IsStr(id) /\ StartsWith(id.s, <<"f", "a", "q", "_">>)
                THEN SubSeq(id.s, 5, Len(id.s))
                ELSE JsString(id)
        n == ParseInt(hash)
    IN IF Truthy(n) THEN n.n ELSE Abs(CharSum(hash))

\* mutant: a vector of another length than the expected one is rejected
CheckPoint_StrictLength(point) ==
    IF ~Truthy(point.id) THEN "missing ID"
    ELSE IF ~Truthy(point.vector) \/ ~IsArr(point.vector) THEN "missing or invalid vector"
    ELSE IF point.vector.len # EXPECTED_DIMENSIONS THEN "dimension mismatch"
    ELSE "ok"

\* lines 115 to 120: the validation of one point; "ok" when it passes
CheckPoint(point) ==
    IF ~Truthy(point.id) THEN "missing ID"
    ELSE IF ~Truthy(point.vector) \/ ~IsArr(point.vector) THEN "missing or invalid vector"
    ELSE "ok"

\* lines 143 to 147: the point sent to the server
PreparePoint(point) ==
    [id |-> PointId(point.id), vector |-> point.vector,
     payload |-> JsOr(point.payload, EmptyObj)]

UpsertIdle ==
    [pc |-> "idle", caller |-> "none", arg |-> Undef, prepared |-> <<>>, warned |-> {},
     err |-> "", again |-> FALSE]

\* lines 104 to 157: upsertPoints(points) up to `await client.upsert`: nothing
\* to do on a missing or empty list; otherwise every point is validated and
\* mapped, in order, and the first invalid one throws before anything is sent
UpsertBegin(points, caller) ==
    LET u == [UpsertIdle EXCEPT !.caller = caller, !.arg = points]
    IN IF ~Truthy(points) \/ ArrLen(points) = 0 THEN [u EXCEPT !.pc = "returned"]
       ELSE LET ps == points.items
                bad == {k \in 1..Len(ps) : CheckPoint(ps[k]) # "ok"}
                first == CHOOSE k \in bad : \A j \in bad : k <= j
                checked == IF bad = {} THEN 1..Len(ps) ELSE 1..(first - 1)
                warned == {k \in checked : ps[k].vector.len # EXPECTED_DIMENSIONS}
            IN IF bad # {}
               THEN [u EXCEPT !.pc = "threw", !.err = CheckPoint(ps[first]), !.warned = warned]
               ELSE [u EXCEPT !.pc = "awaitUpsert", !.warned = warned,
                              !.prepared = [k \in 1..Len(ps) |-> PreparePoint(ps[k])]]

\* whether upsertPoints got as far as getQdrantClient() (line 109)
UpsertUsesClient(u) == u.pc # "returned"

\* the server stores a point under its id, replacing the point it had there
PutPoint(idx, pt) ==
    [k \in DOMAIN idx \cup {pt.id} |->
        IF k = pt.id THEN [vector |-> pt.vector, payload |-> pt.payload] ELSE idx[k]]

RECURSIVE ApplyUpsert(_, _)
\* the server's upsert of a batch: the points are stored in order
ApplyUpsert(idx, prepared) ==
    IF prepared = <<>> THEN idx
    ELSE ApplyUpsert(PutPoint(idx, Head(prepared)), Tail(prepared))

\* lines 154 to 172: client.upsert answers: the points are stored and
\* upsertPoints returns, or the error is logged and thrown again
UpsertEnd(u, outcome) ==
    IF outcome = "ok" THEN [u EXCEPT !.pc = "returned"]
    ELSE [u EXCEPT !.pc = "threw", !.err = "UpsertError"]

(***************************************************************************)
(* sync.js                                                                 *)
(***************************************************************************)
\* a record of the source feed; a property the record lacks is Undef
Faq(id, qE, aE, qH, aH) ==
    [id |-> id, questionEnglish |-> qE, answerEnglish |-> aE, questionHindi |-> qH,
     answerHindi |-> aH, category |-> Undef, question |-> Undef, answer |-> Undef]

RECURSIVE Join(_, _)
\* parts.join(sep)
Join(parts, sep) ==
    IF parts = <<>> THEN <<>>
    ELSE IF Len(parts) = 1 THEN parts[1]
    ELSE parts[1] \o sep \o Join(Tail(parts), sep)

\* lines 15 to 32: combineFaqText
combineFaqText(faq) ==
    LET part(v) == IF Truthy(v) THEN <<v.s>> ELSE <<>>
        parts == part(faq.questionEnglish) \o part(faq.answerEnglish)
                 \o part(faq.questionHindi) \o part(faq.answerHindi)
    IN Trim(Join(parts, <<" ">>))

\* lines 39 to 44: getFaqId throws when the record has no (truthy) id
HasFaqId(faq) == Truthy(faq.id)
getFaqId(faq) == Str(JsString(faq.id))

\* lines 85 to 98: the record built from one source record
BuildRecord(faq) ==
    [faqId |-> getFaqId(faq),
     questionEnglish |-> JsOr(faq.questionEnglish, Str(<<>>)),
     questionHindi |-> JsOr(faq.questionHindi, Str(<<>>)),
     answerEnglish |-> JsOr(faq.answerEnglish, Str(<<>>)),
     answerHindi |-> JsOr(faq.answerHindi, Str(<<>>)),
     category |-> JsOr(faq.category, Str(<<>>)),
     text |-> Str(combineFaqText(faq))]

\* lines 115 to 126: the point built from record k and embedding k
MapToPoint(rec, vector) ==
    [id |-> rec.faqId, vector |-> vector,
     payload |-> Obj([questionEnglish |-> rec.questionEnglish,
                      questionHindi |-> rec.questionHindi,
                      answerEnglish |-> rec.answerEnglish,
                      answerHindi |-> rec.answerHindi,
                      category |-> rec.category,
                      text |-> rec.text])]

SyncIdle ==
    [pc |-> "idle", run |-> 0, faqs |-> <<>>, faqData |-> <<>>, log |-> <<>>,
     failedAt |-> "", err |-> "", report |-> Null, before |-> Null]

Stage(s, name) == [s EXCEPT !.log = Append(@, name)]

\* mutant: the catch swallows the error and reports an empty sync
SyncFail_Swallow(s, err) ==
    [s EXCEPT !.pc = "done", !.log = Append(@, "report"), !.err = err,
              !.report = [synced |-> 0, updated |-> 0, errors |-> 0]]

\* lines 134 to 137: the catch of syncFaqs logs the error and throws it again
SyncFail(s, err) ==
    [s EXCEPT !.pc = "failed", !.failedAt = s.log[Len(s.log)], !.err = err]

\* lines 80 and 133: the report syncFaqs returns
SyncReport(s, count) ==
    [Stage(s, "report") EXCEPT
       !.pc = "done", !.report = [synced |-> count, updated |-> 0, errors |-> 0]]

\* lines 129 to 133: upsertPoints has returned or thrown
SyncAfterUpsert(s, u) ==
    IF u.pc = "threw" THEN SyncFail(s, u.err) ELSE SyncReport(s, Len(s.faqData))

\* mutant: upsertPoints is called without await, so the report is returned
\* while client.upsert is in flight
SyncAfterBatch_NoAwait(s, b, u, client) ==
    IF b.pc = "threw"
    THEN [sync |-> SyncFail(s, b.err), upsert |-> u, client |-> client]
    ELSE LET s2 == Stage(Stage(s, "mapToPoints"), "upsertPoints")
             pts == [k \in 1..Len(s.faqData) |-> MapToPoint(s.faqData[k], b.embeddings[k])]
             u2 == UpsertBegin(List(pts), "sync")
         IN [sync |-> SyncReport(s2, Len(s.faqData)), upsert |-> u2,
             client |-> GetQdrantClient(client)]

\* mutant: the points are built from the embeddings taken in reverse order
SyncAfterBatch_Reversed(s, b, u, client) ==
    IF b.pc = "threw"
    THEN [sync |-> SyncFail(s, b.err), upsert |-> u, client |-> client]
    ELSE IF Len(b.embeddings) # Len(s.faqData)
    THEN [sync |-> SyncFail(s, "Embedding count mismatch"), upsert |-> u, client |-> client]
    ELSE LET s2 == Stage(Stage(s, "mapToPoints"), "upsertPoints")
             n == Len(s.faqData)
             pts == [k \in 1..n |-> MapToPoint(s.faqData[k], b.embeddings[n + 1 - k])]
             u2 == UpsertBegin(List(pts), "sync")
         IN [sync |-> IF u2.pc = "awaitUpsert" THEN [s2 EXCEPT !.pc = "upsert"]
                      ELSE SyncAfterUpsert(s2, u2),
             upsert |-> u2,
             client |-> IF UpsertUsesClient(u2) THEN GetQdrantClient(client) ELSE client]

\* lines 102 to 129: generateEmbeddingsBatch has returned or thrown; on
\* success the counts are compared, the points built and upsertPoints called
SyncAfterBatch(s, b, u, client) ==
    IF b.pc = "threw"
    THEN [sync |-> SyncFail(s, b.err), upsert |-> u, client |-> client]
    ELSE IF Len(b.embeddings) # Len(s.faqData)
    THEN [sync |-> SyncFail(s, "Embedding count mismatch"), upsert |-> u, client |-> client]
    ELSE LET s2 == Stage(Stage(s, "mapToPoints"), "upsertPoints")
             pts == [k \in 1..Len(s.faqData) |-> MapToPoint(s.faqData[k], b.embeddings[k])]
             u2 == UpsertBegin(List(pts), "sync")
         IN [sync |-> IF u2.pc = "awaitUpsert" THEN [s2 EXCEPT !.pc = "upsert"]
                      ELSE SyncAfterUpsert(s2, u2),
             upsert |-> u2,
             client |-> IF UpsertUsesClient(u2) THEN GetQdrantClient(client) ELSE client]

\* mutant: no short-circuit on an empty list: the empty list goes through
\* generateEmbeddingsBatch and upsertPoints, which both return at once
SyncAfterFetch_NoShortCircuit(s, data, b) ==
    LET faqs == IF IsArr(data) THEN data.items ELSE <<>>
        s2 == Stage([s EXCEPT !.faqs = faqs], "buildRecords")
        faqData == [k \in 1..Len(faqs) |-> BuildRecord(faqs[k])]
        s3 == [Stage(s2, "generateEmbeddingsBatch") EXCEPT !.faqData = faqData]
        b2 == BatchBegin(List([k \in 1..Len(faqs) |-> faqData[k].text]), s.run, "sync")
    IN IF \E k \in 1..Len(faqs) : ~HasFaqId(faqs[k])
       THEN [sync |-> SyncFail(s2, "FAQ missing required id field"), batch |-> b, calls |-> {}]
       ELSE IF b2.pc = "returned"
       THEN [sync |-> SyncAfterBatch(s3, b2, UpsertIdle, Null).sync, batch |-> b2, calls |-> {}]
       ELSE [sync |-> IF b2.pc = "threw" THEN SyncFail(s3, b2.err) ELSE [s3 EXCEPT !.pc = "embed"],
             batch |-> b2, calls |-> IssuedCalls(b2)]

\* mutant: records without an id are skipped and the run goes on with the
\* records that have one
SyncAfterFetch_SkipMissingId(s, data, b) ==
    LET all == IF IsArr(data) THEN data.items ELSE <<>>
        faqs == SelectSeq(all, HasFaqId)
        s1 == [s EXCEPT !.faqs = all]
        s2 == Stage(s1, "buildRecords")
        faqData == [k \in 1..Len(faqs) |-> BuildRecord(faqs[k])]
        s3 == [Stage(s2, "generateEmbeddingsBatch") EXCEPT !.faqData = faqData]
        b2 == BatchBegin(List([k \in 1..Len(faqs) |-> faqData[k].text]), s.run, "sync")
    IN IF faqs = <<>>
       THEN [sync |-> SyncReport(s1, 0), batch |-> b, calls |-> {}]
       ELSE [sync |-> IF b2.pc = "threw" THEN SyncFail(s3, b2.err) ELSE [s3 EXCEPT !.pc = "embed"],
             batch |-> b2, calls |-> IssuedCalls(b2)]

\* lines 77 to 102 (and 60): the source answered with `data`; an empty list
\* ends the run with the zero report, otherwise the records are built and
\* generateEmbeddingsBatch is called with their texts
SyncAfterFetch(s, data, b) ==
    LET faqs == IF IsArr(data) THEN data.items ELSE <<>>
        s1 == [s EXCEPT !.faqs = faqs]
        s2 == Stage(s1, "buildRecords")
        faqData == [k \in 1..Len(faqs) |-> BuildRecord(faqs[k])]
        s3 == [Stage(s2, "generateEmbeddingsBatch") EXCEPT !.faqData = faqData]
        b2 == BatchBegin(List([k \in 1..Len(faqs) |-> faqData[k].text]), s.run, "sync")
    IN IF faqs = <<>>
       THEN [sync |-> SyncReport(s1, 0), batch |-> b, calls |-> {}]
       ELSE IF \E k \in 1..Len(faqs) : ~HasFaqId(faqs[k])
       THEN [sync |-> SyncFail(s2, "FAQ missing required id field"), batch |-> b, calls |-> {}]
       ELSE [sync |-> IF b2.pc = "threw" THEN SyncFail(s3, b2.err) ELSE [s3 EXCEPT !.pc = "embed"],
             batch |-> b2, calls |-> IssuedCalls(b2)]

\* sync.js lines 50 to 59: ensureCollection has returned and fetchFaqs is
\* called: without FAQ_API_URL it returns [] at once, otherwise axios.get is issued
SyncBeginFetch(s, b) ==
    LET s1 == Stage(s, "fetchFaqs")
    IN IF ~Truthy(env.FAQ_API_URL)
       THEN SyncAfterFetch(s1, List(<<>>), b)
       ELSE [sync |-> [s1 EXCEPT !.pc = "fetch"], batch |-> b, calls |-> {}]

(***************************************************************************)
(* The vector strategy of the retrieval service (getFaqContext over        *)
(* generateEmbedding and searchVectors).                                   *)
(***************************************************************************)
DEFAULT_LIMIT == 5              \* result limit
CONTEXT_CHAR_LIMIT == 2000      \* character budget of the context
SCORE_THRESHOLD == 50           \* 0.5, in hundredths

sFaq == <<"F", "A", "Q", " ">>
sQuestion == <<":", "\n", "Q", "u", "e", "s", "t", "i", "o", "n", ":", " ">>
sAnswer == <<"\n", "A", "n", "s", "w", "e", "r", ":", " ">>
sQuestionUnavailable == <<"Q", "u", "e", "s", "t", "i", "o", "n", " ", "u", "n", "a", "v", "a", "i", "l", "a", "b", "l", "e">>
sAnswerUnavailable == <<"A", "n", "s", "w", "e", "r", " ", "u", "n", "a", "v", "a", "i", "l", "a", "b", "l", "e">>
sBlankLine == <<"\n", "\n">>

\* the property `name` of object o, Undef when o has none
Prop(o, name) == IF name \in DOMAIN o.f THEN o.f[name] ELSE Undef

\* qdrant.js lines 198 to 202: a search hit as searchVectors returns it
SearchResult(hit) ==
    [faqId |-> hit.id, score |-> hit.score,
     questionEnglish |-> Prop(hit.payload, "questionEnglish"),
     answerEnglish |-> Prop(hit.payload, "answerEnglish")]

\* lines 20 to 24: the block of the FAQ at (zero-based) position idx
FaqBlock(faq, idx) ==
    sFaq \o Decimal(idx + 1) \o sQuestion
    \o JsOr(faq.questionEnglish, Str(sQuestionUnavailable)).s
    \o sAnswer \o JsOr(faq.answerEnglish, Str(sAnswerUnavailable)).s

\* lines 14 to 28: formatFaqContext
formatFaqContext(faqs) ==
    IF faqs = <<>> THEN <<>>
    ELSE LET formatted == Join([k \in 1..Len(faqs) |-> FaqBlock(faqs[k], k - 1)], sBlankLine)
         IN SubSeq(formatted, 1, Min(Len(formatted), CONTEXT_CHAR_LIMIT))

QueryIdle == [pc |-> "idle", q |-> Undef, out |-> Undef, err |-> ""]

\* mutant: the catch throws the error again
GetFaqContextCatch_Rethrow(qr, err) == [qr EXCEPT !.pc = "threw", !.err = err]

\* lines 66 to 69: the catch of getFaqContext logs the error and returns null
GetFaqContextCatch(qr, err) == [qr EXCEPT !.pc = "returned", !.out = Null, !.err = err]

\* lines 36 to 44: the entry of getFaqContext(query), up to `await
\* generateEmbedding(query.trim())`
QueryBegin(q) ==
    LET qr == [QueryIdle EXCEPT !.q = q]
    IN IF ~Truthy(q) \/ ~IsStr(q) \/ Trim(q.s) = <<>>
       THEN [qr EXCEPT !.pc = "returned", !.out = Null]
       ELSE LET pre == EmbedPrecheck(GOOGLE_API_KEY, Str(Trim(q.s)))
            IN IF pre = "ok" THEN [qr EXCEPT !.pc = "embed"]
               ELSE GetFaqContextCatch(qr, pre)

\* lines 44 to 54: generateEmbedding has settled with r; a usable vector
\* goes to searchVectors
QueryAfterEmbed(qr, r) ==
    IF r.st = "rejected" THEN GetFaqContextCatch(qr, r.err)
    ELSE IF ~Truthy(r.v) \/ ~IsArr(r.v) \/ ArrLen(r.v) = 0
    THEN [qr EXCEPT !.pc = "returned", !.out = Null]
    ELSE [qr EXCEPT !.pc = "search"]

\* mutant: an empty result is formatted like any other
QueryAfterSearch_FormatsEmpty(qr, answer) ==
    IF answer.t = "error" THEN GetFaqContextCatch(qr, "SearchError")
    ELSE LET relevantFaqs == [k \in 1..Len(answer.hits) |-> SearchResult(answer.hits[k])]
         IN [qr EXCEPT !.pc = "returned", !.out = Str(formatFaqContext(relevantFaqs))]

\* lines 54 to 65 (qdrant.js 196 to 223): client.search has answered
QueryAfterSearch(qr, answer) ==
    IF answer.t = "error" THEN GetFaqContextCatch(qr, "SearchError")
    ELSE LET relevantFaqs == [k \in 1..Len(answer.hits) |-> SearchResult(answer.hits[k])]
         IN IF relevantFaqs = <<>> THEN [qr EXCEPT !.pc = "returned", !.out = Null]
            ELSE [qr EXCEPT !.pc = "returned", !.out = Str(formatFaqContext(relevantFaqs))]

\* mutant: the request carries no score threshold
SearchRequest_NoThreshold(limit, scoreThreshold) ==
    [limit |-> IF limit = Undef THEN 5 ELSE limit.n, score_threshold |-> 0,
     with_payload |-> TRUE]

\* qdrant.js lines 182 to 194: the request searchVectors sends; the
\* parameters default to limit = 5 and scoreThreshold = 0
SearchRequest(limit, scoreThreshold) ==
    [limit |-> IF limit = Undef THEN 5 ELSE limit.n,
     score_threshold |-> IF scoreThreshold = Undef THEN 0 ELSE scoreThreshold.n,
     with_payload |-> TRUE]

\* qdrant.js lines 182 to 194: searchVectors up to `await client.search`
SearchBegin(limit, scoreThreshold) ==
    [SearchIdle EXCEPT !.pc = "awaitSearch",
                       !.args = [limit |-> limit, scoreThreshold |-> scoreThreshold],
                       !.req = SearchRequest(limit, scoreThreshold)]

\* qdrant.js lines 196 to 223: client.search has answered; the hits are
\* mapped one to one, an error is logged and thrown again
SearchEnd(sr, answer) ==
    IF answer.t = "error" THEN [sr EXCEPT !.pc = "threw", !.err = "SearchError"]
    ELSE [sr EXCEPT !.pc = "returned",
                    !.results = [k \in 1..Len(answer.hits) |-> SearchResult(answer.hits[k])]]

(***************************************************************************)
(* index.js: the lexical strategy of the retrieval service.                *)
(***************************************************************************)
\* a ?? b
Coalesce(a, b) == IF a \in {Undef, Null} THEN b ELSE a

\* String.prototype.toLowerCase on the characters the model uses
ToLowerCase(s) ==
    [k \in 1..Len(s) |-> CASE s[k] = "A" -> "a" [] s[k] = "B" -> "b" [] OTHER -> s[k]]

\* the longest prefix of s without white space
RECURSIVE WordPrefix(_)
WordPrefix(s) ==
    IF s = <<>> \/ IsSpace(Head(s)) THEN <<>>
    ELSE <<Head(s)>> \o WordPrefix(Tail(s))

\* s.split(/\s+/): a leading or trailing run of white space leaves an empty
\* string at that end
RECURSIVE SplitWs(_)
SplitWs(s) ==
    LET w == WordPrefix(s)
        rest == SubSeq(s, Len(w) + 1, Len(s))
    IN IF rest = <<>> THEN <<w>> ELSE <<w>> \o SplitWs(TrimStart(rest))

\* hay.includes(needle)
Includes(hay, needle) ==
    \E i \in 0..(Len(hay) - Len(needle)) : SubSeq(hay, i + 1, i + Len(needle)) = needle

\* array.slice(0, n) for n >= 0
Take(items, n) == SubSeq(items, 1, Min(Len(items), n))

\* line 5: the source URL, with its default
Lex_FAQ_API_URL ==
    IF env.FAQ_API_URL = Undef THEN Str(<<"l">>) ELSE env.FAQ_API_URL

\* line 13
DEFAULT_CACHE_TTL ==
    LET n == JsNumber(env.FAQ_CACHE_TTL_MS) IN IF Truthy(n) THEN n.n ELSE 60000

\* line 14
Lex_DEFAULT_LIMIT ==
    LET n == JsNumber(env.FAQ_MAX_RESULTS) IN IF Truthy(n) THEN n.n ELSE 5

\* line 15
Lex_CONTEXT_CHAR_LIMIT ==
    LET n == JsNumber(env.FAQ_CONTEXT_CHAR_LIMIT) IN IF Truthy(n) THEN n.n ELSE 2000

\* lines 68 to 72: the tokens of the query
Tokens(q) ==
    LET parts == SplitWs(ToLowerCase(q.s))
        nonEmpty(t) == t # <<>>
    IN SelectSeq([k \in 1..Len(parts) |-> Trim(parts[k])], nonEmpty)

\* lines 81 to 86: the text of a FAQ the tokens are looked up in
Combined(faq) ==
    LET text(v) == ToLowerCase(JsString(v))
        question == Coalesce(Prop(faq, "question"),
                      Coalesce(Prop(faq, "questionEnglish"), Coalesce(Prop(faq, "title"), Str(<<>>))))
        answer == Coalesce(Prop(faq, "answer"),
                    Coalesce(Prop(faq, "answerEnglish"), Coalesce(Prop(faq, "response"), Str(<<>>))))
    IN text(question) \o <<" ">> \o text(answer) \o <<" ">>
       \o text(Coalesce(Prop(faq, "questionHindi"), Str(<<>>))) \o <<" ">>
       \o text(Coalesce(Prop(faq, "answerHindi"), Str(<<>>)))

RECURSIVE Score(_, _)
\* line 87: one for every token the text includes
Score(faq, tokens) ==
    IF tokens = <<>> THEN 0
    ELSE (IF Includes(Combined(faq), Head(tokens)) THEN 1 ELSE 0) + Score(faq, Tail(tokens))

RECURSIVE SortScored(_)
\* mutant: the scored FAQs are left in source order
SortScored_SourceOrder(scored) ==
    IF scored = {} THEN <<>>
    ELSE LET first == CHOOSE a \in scored : \A b \in scored : a.index <= b.index
         IN <<first>> \o SortScored(scored \ {first})

\* lines 97 to 102: scored.sort by descending score, then by ascending index
SortScored(scored) ==
    IF scored = {} THEN <<>>
    ELSE LET first == CHOOSE a \in scored : \A b \in scored :
                        a.score > b.score \/ (a.score = b.score /\ a.index <= b.index)
         IN <<first>> \o SortScored(scored \ {first})

\* lines 78 to 91: the positions (from 0) of the FAQs with a positive score
Scored(faqs, tokens) ==
    { [score |-> Score(faqs[k], tokens), index |-> k - 1] :
        k \in {j \in 1..Len(faqs) : Score(faqs[j], tokens) > 0} }

\* mutant: nothing is returned when no FAQ scores
selectRelevantFaqs_NoFallback(faqs, q) ==
    IF faqs = <<>> \/ ~Truthy(q) \/ ~IsStr(q) THEN <<>>
    ELSE LET sorted == SortScored(Scored(faqs, Tokens(q)))
         IN [k \in 1..Min(Len(sorted), Lex_DEFAULT_LIMIT) |-> faqs[sorted[k].index + 1]]

\* lines 59 to 105: selectRelevantFaqs
selectRelevantFaqs(faqs, q) ==
    IF faqs = <<>> THEN <<>>
    ELSE IF ~Truthy(q) \/ ~IsStr(q) THEN Take(faqs, Lex_DEFAULT_LIMIT)
    ELSE IF Tokens(q) = <<>> THEN Take(faqs, Lex_DEFAULT_LIMIT)
    ELSE IF Scored(faqs, Tokens(q)) = {} THEN Take(faqs, Lex_DEFAULT_LIMIT)
    ELSE LET sorted == Take(SortScored(Scored(faqs, Tokens(q))), Lex_DEFAULT_LIMIT)
         IN [k \in 1..Len(sorted) |-> faqs[sorted[k].index + 1]]

\* lines 118 to 123: the block of the FAQ at (zero-based) position idx
Lex_FaqBlock(faq, idx) ==
    LET question == Coalesce(Prop(faq, "question"),
                      Coalesce(Prop(faq, "questionEnglish"),
                        Coalesce(Prop(faq, "title"), Str(sQuestionUnavailable))))
        answer == Coalesce(Prop(faq, "answer"),
                    Coalesce(Prop(faq, "answerEnglish"),
                      Coalesce(Prop(faq, "response"), Str(sAnswerUnavailable))))
    IN sFaq \o Decimal(idx + 1) \o sQuestion \o JsString(question)
       \o sAnswer \o JsString(answer)

\* mutant: the rendering is returned whole
Lex_formatFaqContext_Whole(faqs) ==
    Join([k \in 1..Len(faqs) |-> Lex_FaqBlock(faqs[k], k - 1)], sBlankLine)

\* lines 112 to 127: formatFaqContext
Lex_formatFaqContext(faqs) ==
    IF faqs = <<>> THEN <<>>
    ELSE Take(Join([k \in 1..Len(faqs) |-> Lex_FaqBlock(faqs[k], k - 1)], sBlankLine),
              Lex_CONTEXT_CHAR_LIMIT)

\* lines 136 to 145: getFaqContext once fetchFaqs has returned `faqs`
LexFinish(l, faqs) ==
    LET relevant == selectRelevantFaqs(faqs.items, l.query)
        l2 == [l EXCEPT !.pc = "returned", !.faqs = faqs]
    IN IF faqs.items = <<>> THEN [l2 EXCEPT !.out = Null]
       ELSE IF relevant = <<>> THEN [l2 EXCEPT !.relevant = relevant, !.out = Null]
       ELSE [l2 EXCEPT !.relevant = relevant, !.out = Str(Lex_formatFaqContext(relevant))]

\* mutant: the cache is consulted only while it holds a non-empty list
LexBegin_EmptyMisses(q, c, t) ==
    LET l == [LexIdle EXCEPT !.query = q, !.now = t]
    IN IF ~Truthy(Lex_FAQ_API_URL) THEN LexFinish(l, List(<<>>))
       ELSE IF Truthy(c.value) /\ c.value.items # <<>> /\ c.expiresAt > t
       THEN LexFinish([l EXCEPT !.hit = TRUE], c.value)
       ELSE [l EXCEPT !.pc = "awaitGet"]

\* lines 134 and 27 to 38: getFaqContext(query) enters fetchFaqs at time t
\* with the cache c: no URL gives [], a live cache entry gives its value,
\* otherwise axios.get is issued
LexBegin(q, c, t) ==
    LET l == [LexIdle EXCEPT !.query = q, !.now = t]
    IN IF ~Truthy(Lex_FAQ_API_URL) THEN LexFinish(l, List(<<>>))
       ELSE IF Truthy(c.value) /\ c.expiresAt > t THEN LexFinish([l EXCEPT !.hit = TRUE], c.value)
       ELSE [l EXCEPT !.pc = "awaitGet"]

\* mutant: an entry that expires later than the one to be written is kept
CacheStore_KeepsNewer(data, t) ==
    IF cache.value # Null /\ cache.expiresAt > t + DEFAULT_CACHE_TTL THEN cache
    ELSE [value |-> IF IsArr(data) THEN data ELSE List(<<>>),
          expiresAt |-> t + DEFAULT_CACHE_TTL]

\* mutant: only the value of the cache is assigned; expiresAt stays as it was
CacheStore_ValueOnly(data, t) ==
    [value |-> IF IsArr(data) THEN data ELSE List(<<>>), expiresAt |-> cache.expiresAt]

\* lines 41 to 45: the cache entry written after a successful fetch that
\* began at time t
CacheStore(data, t) ==
    [value |-> IF IsArr(data) THEN data ELSE List(<<>>), expiresAt |-> t + DEFAULT_CACHE_TTL]

\* mutant: a failed fetch keeps the value and extends its expiry by the TTL
CacheAfterGet_ExtendsOnFailure(answer, c, t) ==
    IF answer.t = "error" THEN [c EXCEPT !.expiresAt = t + DEFAULT_CACHE_TTL]
    ELSE CacheStore(answer.data, t)

\* lines 37 to 50: the cache once axios.get has answered a fetch that began
\* at time t: replaced on success, left as it is (c) by the catch
CacheAfterGet(answer, c, t) ==
    IF answer.t = "error" THEN c ELSE CacheStore(answer.data, t)

\* mutant: a failed fetch is thrown to the caller
LexAfterGet_Throws(l, answer, c) ==
    IF answer.t = "error" THEN [l EXCEPT !.pc = "threw", !.failed = TRUE]
    ELSE LexFinish(l, CacheStore(answer.data, l.now).value)

\* lines 38 to 50 and 136 to 145: axios.get has answered; on success the
\* cache is replaced, on failure the cached value, or [], is used
LexAfterGet(l, answer, c) ==
    IF answer.t = "error"
    THEN LexFinish([l EXCEPT !.failed = TRUE], Coalesce(c.value, List(<<>>)))
    ELSE LexFinish(l, CacheStore(answer.data, l.now).value)

(***************************************************************************)
(* qdrant.js: deletePoint, getCollectionInfo and testConnection;           *)
(* createIndex.js: ensureQdrantCollection; syncScript.js: main.            *)
(***************************************************************************)
sForbidden == <<"F", "o", "r", "b", "i", "d", "d", "e", "n">>
s401 == <<"4", "0", "1">>
s403 == <<"4", "0", "3">>
sError == <<"E", "r", "r", "o", "r">>

\* an Error the client library throws: its message and, for an HTTP answer,
\* the status
BackendError(message, status) == [message |-> Str(message), status |-> status]

\* qdrant.js lines 297 to 303: the errors testConnection answers with a
\* descriptor
IsUnauthorized(error) ==
    \/ Includes(error.message.s, sForbidden)
    \/ Includes(error.message.s, s401)
    \/ Includes(error.message.s, s403)
    \/ error.status = Num(403)
    \/ error.status = Num(401)

\* mutant: the catch of testConnection throws the error again
TestCatch_Rethrow(a, error) == [a EXCEPT !.pc = "threw", !.failure = error]

\* qdrant.js lines 295 to 309: the catch of testConnection returns the
\* descriptor for the errors above; for any other error the function ends
\* without a return statement and the call resolves to undefined
TestCatch(a, error) ==
    IF IsUnauthorized(error)
    THEN [a EXCEPT !.pc = "returned", !.failure = error,
                   !.out = Obj([connected |-> FALSE, collectionExists |-> FALSE,
                                error |-> JsOr(error.message, Str(sError))])]
    ELSE [a EXCEPT !.pc = "returned", !.failure = error, !.out = Undef]

\* what client.getCollection answers for the collection of the server
CollectionInfo ==
    Obj([points_count |-> Num(Cardinality(DOMAIN index)), size |-> Num(collection.size)])

\* qdrant.js lines 275 to 294: the descriptor of a reachable server
TestDescriptor(exists, info) ==
    Obj([connected |-> TRUE, collectionExists |-> exists,
         pointCount |-> IF exists THEN JsOr(info.f.points_count, Num(0)) ELSE Num(0),
         vectorSize |-> IF exists THEN JsOr(info.f.size, Null) ELSE Null])

\* the adapter function `op` is entered: it takes the client (lines 233,
\* 253, 268 and 38) and issues its first client call
AdapterBegin(op, arg, client) ==
    [AdapterIdle EXCEPT
       !.op = op, !.arg = arg, !.client = GetQdrantClient(client),
       !.pc = CASE op = "deletePoint" -> "awaitDelete"
                [] op = "getCollectionInfo" -> "awaitInfo"
                [] OTHER -> "awaitList"]

\* getCollectionInfo is entered from testConnection (line 278) or from
\* ensureQdrantCollection (createIndex.js line 9): it takes the client again
EnterCollectionInfo(a, client) ==
    [a EXCEPT !.pc = "awaitInfo", !.client = GetQdrantClient(client)]

\* client.getCollections has answered testConnection (lines 270 to 294) or
\* the ensureCollection of ensureQdrantCollection (lines 40 to 62)
AdapterAfterList(a, answer, client) ==
    IF a.op = "testConnection"
    THEN IF answer.t = "error" THEN TestCatch(a, answer.error)
         ELSE IF collectionExists THEN EnterCollectionInfo(a, client)
         ELSE [a EXCEPT !.pc = "returned", !.out = TestDescriptor(FALSE, Undef)]
    ELSE IF answer.t = "error" THEN [a EXCEPT !.pc = "threw", !.failure = answer.error]
         ELSE IF collectionExists THEN EnterCollectionInfo(a, client)
         ELSE [a EXCEPT !.pc = "awaitCreate"]

\* client.createCollection has answered (lines 52 to 66); on success
\* ensureCollection returns and ensureQdrantCollection asks for the info
AdapterAfterCreate(a, answer, client) ==
    IF answer.t = "error" THEN [a EXCEPT !.pc = "threw", !.failure = answer.error]
    ELSE EnterCollectionInfo(a, client)

\* client.getCollection has answered (lines 251 to 259): getCollectionInfo
\* returns the info or throws the error again to its caller
AdapterAfterInfo(a, answer) ==
    IF a.op = "testConnection"
    THEN IF answer.t = "error" THEN TestCatch(a, answer.error)
         ELSE [a EXCEPT !.pc = "returned", !.out = TestDescriptor(TRUE, answer.info)]
    ELSE IF answer.t = "error" THEN [a EXCEPT !.pc = "threw", !.failure = answer.error]
         ELSE [a EXCEPT !.pc = "returned", !.out = answer.info]

\* client.delete has answered (lines 231 to 245)
AdapterAfterDelete(a, answer) ==
    IF answer.t = "error" THEN [a EXCEPT !.pc = "threw", !.failure = answer.error]
    ELSE [a EXCEPT !.pc = "returned"]

\* the server removes the point with this id, if it has one
RemovePoint(idx, id) == [k \in DOMAIN idx \ {id} |-> idx[k]]

\* whether a result of testConnection can be read and says connected
Connected(r) == r.t = "obj" /\ r.f.connected

\* mutant: the catch of main() exits with code 0
MainCatch_ExitZero(s) == [s EXCEPT !.pc = "exited", !.exit = Num(0)]

\* syncScript.js lines 45 to 48: the catch of main() logs and exits with 1
MainCatch(s) == [s EXCEPT !.pc = "exited", !.exit = Num(1)]

\* process.exit(code) (lines 15 and 44)
ProcessExit(s, code) == [s EXCEPT !.pc = "exited", !.exit = Num(code)]

(***************************************************************************)
(* Inputs of the model.                                                    *)
(***************************************************************************)
SeqsUpTo(S, n) == UNION {[1..k -> S] : k \in 0..n}

\* arguments a caller may hand to generateEmbedding
EmbedArgs ==
    {Undef, Num(5), Str(<<>>), Str(<<" ">>), Str(<<"q">>), Str(<<" ", "q", " ">>)}

\* the arguments a caller hands to generateEmbeddingsBatch: no array, or an
\* array of n distinct texts in which position `blank` (if any) is blank
BatchArgs ==
    {Undef, Str(<<"x">>)} \cup
    { List([p \in 1..n |-> IF p = blank THEN Str(<<" ">>) ELSE Str(<<"q">> \o Decimal(p))]) :
        n \in 0..MaxTexts, blank \in {0, 1, batchSize + 1} }

\* records of the source feed: two complete ones, one without id and one
\* that carries its text under the older names `question` and `answer` only
SourceRecords ==
    { Faq(Str(<<"1">>), Str(<<"q">>), Str(<<"a">>), Undef, Undef),
      Faq(Str(<<"a", "b">>), Undef, Undef, Str(<<"h">>), Undef),
      Faq(Undef, Str(<<"q">>), Undef, Undef, Undef),
      [Faq(Str(<<"2">>), Undef, Undef, Undef, Undef)
         EXCEPT !.question = Str(<<"q">>), !.answer = Str(<<"a">>)] }

\* a feed of batchSize + 1 complete records with distinct ids and texts
LongFeed ==
    [k \in 1..(batchSize + 1) |->
        Faq(Str(Decimal(k)), Str(<<"q">> \o Decimal(k)), Undef, Undef, Undef)]

\* the bodies the source feed may answer with: a non-array, a short list of
\* any records or, in the first run of a behaviour, the long list
FeedBodies(run) ==
    {Str(<<"x">>)} \cup {List(f) : f \in SeqsUpTo(SourceRecords, MaxFaqs)}
    \cup (IF run = 1 THEN {List(LongFeed)} ELSE {})

FetchAnswers(run) == {[t |-> "error"]} \cup {[t |-> "ok", data |-> d] : d \in FeedBodies(run)}

\* identifiers at the edges of parseInt: zero, a negative number, digits
\* followed by letters, and the bare prefix
EdgeIds ==
    << <<"0">>, <<"-", "5">>, <<"1", "2", "a", "b", "c">>, <<"f", "a", "q", "_">> >>

\* one list of valid points carrying these identifiers
EdgePoints ==
    [k \in 1..Len(EdgeIds) |->
        [id |-> Str(EdgeIds[k]), vector |-> Vec(DEFAULT_DIMENSIONS, Str(<<"q">>)),
         payload |-> Undef]]

\* points a caller may hand to upsertPoints: "1" and "faq_1" share point id
\* 1; the last two are invalid (no id, no vector)
PointArgs ==
    { [id |-> Str(<<"1">>), vector |-> Vec(DEFAULT_DIMENSIONS, Str(<<"q">>)),
       payload |-> Obj([text |-> Str(<<"q">>)])],
      [id |-> Str(<<"f", "a", "q", "_", "1">>), vector |-> Vec(DEFAULT_DIMENSIONS, Str(<<"h">>)),
       payload |-> Undef],
      [id |-> Str(<<"a", "b">>), vector |-> Vec(README_DIMENSIONS, Str(<<"a">>)),
       payload |-> Obj([text |-> Str(<<"a">>)])],
      [id |-> Undef, vector |-> Vec(DEFAULT_DIMENSIONS, Str(<<"q">>)), payload |-> Undef],
      [id |-> Str(<<"2">>), vector |-> Undef, payload |-> Undef] }

UpsertArgs ==
    {Undef, List(EdgePoints)} \cup {List(ps) : ps \in SeqsUpTo(PointArgs, MaxPoints)}

\* a point stored by an earlier deployment
OldPoint == [id |-> 1, vector |-> Vec(DEFAULT_DIMENSIONS, Str(<<"x">>)), payload |-> EmptyObj]

\* the server states a sync or an upsert may start from
InitialServers ==
    { [collection |-> NoCollection, index |-> <<>>],
      [collection |-> [exists |-> TRUE, size |-> DEFAULT_DIMENSIONS, distance |-> "Cosine"],
       index |-> <<>>],
      [collection |-> [exists |-> TRUE, size |-> DEFAULT_DIMENSIONS, distance |-> "Cosine"],
       index |-> PutPoint(<<>>, OldPoint)] }

\* the queries a conversation may hand to getFaqContext
QueryArgs ==
    {Undef, Num(5), Str(<<>>), Str(<<" ">>), Str(<<"q">>), Str(<<" ", "q", " ">>)}

\* the answers of client.search: an error, or at most `limit` distinct points
\* of the collection with scores at or above the threshold, best first
SearchAnswers(idx, limit, threshold) ==
    {[t |-> "error"]} \cup
    IF ~collection.exists THEN {}
    ELSE { [t |-> "ok", hits |-> h] :
             h \in { g \in SeqsUpTo([id : DOMAIN idx, score : {threshold, 90}],
                                    Min(limit, Cardinality(DOMAIN idx))) :
                       /\ \A i, j \in 1..Len(g) : i < j =>
                            g[i].id # g[j].id /\ g[i].score >= g[j].score } }

\* the hit with its stored payload (with_payload: true)
WithPayload(idx, h) ==
    [k \in 1..Len(h) |-> [id |-> h[k].id, score |-> h[k].score, payload |-> idx[h[k].id].payload]]

\* records of the feed as the lexical strategy reads them: the field name
\* variants, an upper-case letter, a numeric field and a record without text
LexRecords ==
    { Obj([question |-> Str(<<"a", " ", "b">>), answer |-> Str(<<"x">>)]),
      Obj([questionEnglish |-> Str(<<"A">>), answerEnglish |-> Str(<<"q">>)]),
      Obj([title |-> Str(<<"b">>), response |-> Num(5), questionHindi |-> Str(<<"h">>)]),
      Obj([id |-> Str(<<"1">>)]) }

\* a feed of more records than the default result limit, each matching "q"
LexLongFeed ==
    [k \in 1..6 |-> Obj([question |-> Str(<<"q">> \o Decimal(k)), answer |-> Str(<<"a">>)])]

LexFeedBodies ==
    {Str(<<"x">>), List(LexLongFeed)} \cup {List(f) : f \in SeqsUpTo(LexRecords, MaxFaqs)}

\* the queries a conversation may hand to the lexical getFaqContext
LexQueries ==
    { Undef, Num(5), Str(<<>>), Str(<<" ">>), Str(<<"a">>), Str(<<"z">>), Str(<<"q">>),
      Str(<<" ", "B", " ", " ", "a", "\n">>), Str(<<"x", " ", "x", " ", "b">>) }

\* the environment index.js reads at load
LexEnvs(urls, limits, budgets) ==
    { e @@ [FAQ_CACHE_TTL_MS |-> Undef, FAQ_MAX_RESULTS |-> m, FAQ_CONTEXT_CHAR_LIMIT |-> b] :
        e \in Envs({Undef}, {Undef}, {Undef}, urls, {DEFAULT_DIMENSIONS}),
        m \in limits, b \in budgets }

\* a text as long as the character budget of the context
LongText == [k \in 1..CONTEXT_CHAR_LIMIT |-> "a"]

\* FAQs handed to the formatters: the field name variants, an empty string,
\* a number, a record without text and texts that fill the budget
FormatRecords ==
    { Obj([question |-> Str(<<"Q", "1">>), answer |-> Str(<<"A", "1">>)]),
      Obj([questionEnglish |-> Str(<<"Q", "1">>), answerEnglish |-> Str(<<"A", "1">>)]),
      Obj([questionEnglish |-> Str(<<>>), answerEnglish |-> Str(LongText)]),
      Obj([title |-> Str(<<"Q", "1">>), response |-> Num(5)]),
      Obj([id |-> Str(<<"1">>)]),
      Obj([question |-> Str(LongText)]) }

\* the FAQ as searchVectors hands it to the formatter of the vector strategy
VectorView(faq) ==
    [questionEnglish |-> Prop(faq, "questionEnglish"),
     answerEnglish |-> Prop(faq, "answerEnglish")]

(***************************************************************************)
(* Actions: one per event-loop turn.                                       *)
(***************************************************************************)
\* a caller invokes generateEmbedding(text): the checks run synchronously and
\* the call either rejects or issues model.embedContent and awaits it
EmbedStart(text) ==
    /\ embed.pc = "idle"
    /\ LET pre == EmbedPrecheck(GOOGLE_API_KEY, text)
       IN IF pre = "ok"
          THEN /\ pending' = pending \cup {RemoteCall("direct", 0, 1, text)}
               /\ remoteCalls' = remoteCalls + 1
               /\ embed' = [pc |-> "await", text |-> text]
          ELSE /\ embed' = [pc |-> "rejected", text |-> text, err |-> pre]
               /\ UNCHANGED <<pending, remoteCalls>>
    /\ UNCHANGED <<env, batch, qdrantVars, upsert, sync, query, search, format, lexVars, scriptVars>>

\* model.embedContent answers the direct call
EmbedReturn(c, resp) ==
    /\ c \in pending /\ c.owner = "direct"
    /\ embed.pc = "await"
    /\ pending' = pending \ {c}
    /\ LET r == EmbedAccept(resp)
       IN embed' = IF r.st = "resolved"
                   THEN [pc |-> "resolved", text |-> c.text, resp |-> resp, v |-> r.v]
                   ELSE [pc |-> "rejected", text |-> c.text, resp |-> resp, err |-> r.err]
    /\ UNCHANGED <<env, remoteCalls, batch, qdrantVars, upsert, sync, query, search, format, lexVars, scriptVars>>

\* a caller invokes generateEmbeddingsBatch(texts)
BatchCall(texts) ==
    /\ batch.pc = "idle"
    /\ LET b == BatchBegin(texts, 1, "direct")
           calls == IF b.pc = "returned" THEN {} ELSE IssuedCalls(b)
       IN /\ batch' = b
          /\ pending' = pending \cup calls
          /\ remoteCalls' = remoteCalls + Cardinality(calls)
    /\ UNCHANGED <<env, embed, qdrantVars, upsert, sync, query, search, format, lexVars, scriptVars>>

\* model.embedContent answers a call of a batch; when that settles
\* Promise.all for syncFaqs, syncFaqs goes on in the same turn
BatchEmbedReturn(c, resp) ==
    /\ c \in pending /\ c.owner = "batch"
    /\ pending' = pending \ {c}
    /\ LET b == IF c.gen = batch.gen
                THEN BatchSettle(batch, c.pos, EmbedAccept(resp))
                ELSE batch
           resumes == /\ batch.caller = "sync" /\ batch.pc = "awaitAll"
                      /\ b.pc \in {"returned", "threw"}
           fx == SyncAfterBatch(sync, b, upsert, qdrantClient)
       IN /\ batch' = b
          /\ sync' = IF resumes THEN fx.sync ELSE sync
          /\ upsert' = IF resumes THEN fx.upsert ELSE upsert
          /\ qdrantClient' = IF resumes THEN fx.client ELSE qdrantClient
    /\ UNCHANGED <<env, remoteCalls, embed, collection, index, query, search, format, lexVars, scriptVars>>

\* the 100 ms timer between two batches fires
BatchDelayElapsed ==
    /\ batch.pc = "delay"
    /\ LET b == BatchResume(batch)
       IN /\ batch' = b
          /\ pending' = pending \cup IssuedCalls(b)
          /\ remoteCalls' = remoteCalls + Cardinality(IssuedCalls(b))
          /\ sync' = IF batch.caller = "sync" /\ b.pc = "threw"
                     THEN SyncFail(sync, b.err) ELSE sync
    /\ UNCHANGED <<env, embed, qdrantVars, upsert, query, search, format, lexVars, scriptVars>>

\* a caller invokes upsertPoints(points); `again` records that the call
\* repeats the list of the call that has just returned
UpsertCall(points) ==
    /\ upsert.pc \in {"idle", "returned", "threw"}
    /\ LET u == UpsertBegin(points, "direct")
       IN /\ upsert' = [u EXCEPT !.again = upsert.pc = "returned" /\ upsert.arg = points]
          /\ qdrantClient' = IF UpsertUsesClient(u) THEN GetQdrantClient(qdrantClient)
                             ELSE qdrantClient
    /\ UNCHANGED <<env, embedVars, embed, batch, collection, index, sync, query, search, format, lexVars, scriptVars>>

\* client.upsert answers (wait: true): the server has stored the points, or
\* it has stored none and reports an error
UpsertReturn(outcome) ==
    /\ upsert.pc = "awaitUpsert"
    /\ outcome = "ok" => collection.exists
    /\ index' = IF outcome = "ok" THEN ApplyUpsert(index, upsert.prepared) ELSE index
    /\ LET u == UpsertEnd(upsert, outcome)
       IN /\ upsert' = u
          /\ sync' = IF upsert.caller = "sync" THEN SyncAfterUpsert(sync, u) ELSE sync
    /\ UNCHANGED <<env, embedVars, embed, batch, collection, qdrantClient, query, search, format, lexVars, scriptVars>>

\* (sync.before is history: the server's state when the run began.)
\* syncScript.js runs syncFaqs() once per process and exits when it has
\* returned or thrown, so a run starts in a fresh process: no request of an
\* earlier run is in flight and the module state is as loaded.  The server
\* keeps its collection and points.  ensureCollection takes the client and
\* issues client.getCollections (qdrant.js lines 38 to 40).
SyncStart ==
    /\ sync.pc \in {"idle", "done", "failed"}
    /\ sync.run < MaxRuns
    /\ sync' = [SyncIdle EXCEPT !.pc = "getCollections", !.run = sync.run + 1,
                                !.log = <<"ensureCollection">>,
                                !.before = [collection |-> collection, index |-> index]]
    /\ qdrantClient' = GetQdrantClient(Null)
    /\ pending' = {}
    /\ remoteCalls' = 0
    /\ batch' = BatchIdle
    /\ upsert' = UpsertIdle
    /\ UNCHANGED <<env, embed, collection, index, query, search, format, lexVars, scriptVars>>

\* client.getCollections answers (qdrant.js lines 40 to 62): when the listing
\* lacks the collection, createCollection is issued; otherwise
\* ensureCollection returns and syncFaqs goes on to fetchFaqs
EnsureListReturn(outcome) ==
    /\ sync.pc = "getCollections"
    /\ IF outcome = "error"
       THEN /\ sync' = SyncFail(sync, "GetCollectionsError")
            /\ UNCHANGED <<batch, pending, remoteCalls>>
       ELSE IF ~collectionExists
       THEN /\ sync' = [sync EXCEPT !.pc = "createCollection"]
            /\ UNCHANGED <<batch, pending, remoteCalls>>
       ELSE LET fx == SyncBeginFetch(sync, batch)
            IN /\ sync' = fx.sync
               /\ batch' = fx.batch
               /\ pending' = pending \cup fx.calls
               /\ remoteCalls' = remoteCalls + Cardinality(fx.calls)
    /\ UNCHANGED <<env, embed, qdrantVars, upsert, query, search, format, lexVars, scriptVars>>

\* client.createCollection answers (qdrant.js lines 52 to 66)
EnsureCreateReturn(outcome) ==
    /\ sync.pc = "createCollection"
    /\ IF outcome = "error"
       THEN /\ sync' = SyncFail(sync, "CreateCollectionError")
            /\ UNCHANGED <<batch, pending, remoteCalls, collection>>
       ELSE LET fx == SyncBeginFetch(sync, batch)
            IN /\ ~collection.exists
               /\ collection' = CreatedCollection
               /\ sync' = fx.sync
               /\ batch' = fx.batch
               /\ pending' = pending \cup fx.calls
               /\ remoteCalls' = remoteCalls + Cardinality(fx.calls)
    /\ UNCHANGED <<env, embed, index, qdrantClient, upsert, query, search, format, lexVars, scriptVars>>

\* axios.get answers fetchFaqs (sync.js lines 57 to 64)
FetchReturn(answer) ==
    /\ sync.pc = "fetch"
    /\ IF answer.t = "error"
       THEN /\ sync' = SyncFail(sync, "FetchError")
            /\ UNCHANGED <<batch, pending, remoteCalls>>
       ELSE LET fx == SyncAfterFetch(sync, answer.data, batch)
            IN /\ sync' = fx.sync
               /\ batch' = fx.batch
               /\ pending' = pending \cup fx.calls
               /\ remoteCalls' = remoteCalls + Cardinality(fx.calls)
    /\ UNCHANGED <<env, embed, qdrantVars, upsert, query, search, format, lexVars, scriptVars>>

\* mutant: the vector getFaqContext stores an (empty) FAQ list in the cache
\* of the lexical strategy
VectorFrame_WarmsCache ==
    /\ cache' = [value |-> List(<<>>), expiresAt |-> now + DEFAULT_CACHE_TTL]
    /\ UNCHANGED <<now, lexical>>

\* lines 1 to 3 and 35 to 70: the vector strategy requires only the
\* embedding and the Qdrant adapters; the FAQ cache and the fetcher belong to
\* index.js, which it never calls, so its steps leave them alone
VectorFrame == UNCHANGED lexVars

\* a conversation invokes getFaqContext(query)
QueryStart(q) ==
    /\ query.pc = "idle"
    /\ LET qr == QueryBegin(q)
           calls == IF qr.pc = "embed" THEN {RemoteCall("query", 0, 1, Str(Trim(q.s)))} ELSE {}
       IN /\ query' = qr
          /\ pending' = pending \cup calls
          /\ remoteCalls' = remoteCalls + Cardinality(calls)
    /\ VectorFrame
    /\ UNCHANGED <<env, embed, batch, qdrantVars, upsert, sync, search, format, scriptVars>>

\* model.embedContent answers the query's embedding call; with a usable
\* vector, searchVectors takes the client and issues client.search
QueryEmbedReturn(c, resp) ==
    /\ c \in pending /\ c.owner = "query"
    /\ query.pc = "embed"
    /\ pending' = pending \ {c}
    /\ LET qr == QueryAfterEmbed(query, EmbedAccept(resp))
       IN /\ query' = qr
          /\ qdrantClient' = IF qr.pc = "search" THEN GetQdrantClient(qdrantClient)
                             ELSE qdrantClient
    /\ VectorFrame
    /\ UNCHANGED <<env, remoteCalls, embed, batch, collection, index, upsert, sync, search, format, scriptVars>>

\* client.search answers
QuerySearchReturn(answer) ==
    /\ query.pc = "search"
    /\ query' = QueryAfterSearch(query,
                   IF answer.t = "error" THEN answer
                   ELSE [t |-> "ok", hits |-> WithPayload(index, answer.hits)])
    /\ VectorFrame
    /\ UNCHANGED <<env, embedVars, embed, batch, qdrantVars, upsert, sync, search, format, scriptVars>>

\* a caller invokes searchVectors(queryVector, limit, scoreThreshold)
SearchCall(limit, scoreThreshold) ==
    /\ search.pc \in {"idle", "returned", "threw"}
    /\ search' = SearchBegin(limit, scoreThreshold)
    /\ qdrantClient' = GetQdrantClient(qdrantClient)
    /\ UNCHANGED <<env, embedVars, embed, batch, collection, index, upsert, sync, query,
                   format, lexVars, scriptVars>>

\* client.search answers the direct call
SearchReturn(answer) ==
    /\ search.pc = "awaitSearch"
    /\ search' = SearchEnd(search,
                    IF answer.t = "error" THEN answer
                    ELSE [t |-> "ok", hits |-> WithPayload(index, answer.hits)])
    /\ UNCHANGED <<env, embedVars, embed, batch, qdrantVars, upsert, sync, query,
                   format, lexVars, scriptVars>>

\* conversation c invokes the lexical getFaqContext(q): fetchFaqs answers at
\* once from the cache (or with [] without URL), or axios.get is issued
LexStart(c, q) ==
    /\ lexical[c].pc \in {"idle", "returned"}
    /\ lexical' = [lexical EXCEPT ![c] = LexBegin(q, cache, now)]
    /\ UNCHANGED <<env, embedVars, embed, batch, qdrantVars, upsert, sync, query,
                   search, format, cache, now, scriptVars>>

\* axios.get answers the fetch of conversation c
LexGetReturn(c, answer) ==
    /\ lexical[c].pc = "awaitGet"
    /\ lexical' = [lexical EXCEPT ![c] = LexAfterGet(lexical[c], answer, cache)]
    /\ cache' = CacheAfterGet(answer, cache, lexical[c].now)
    /\ UNCHANGED <<env, embedVars, embed, batch, qdrantVars, upsert, sync, query,
                   search, format, now, scriptVars>>

\* time passes
Tick ==
    /\ now < MaxTicks * TICK_MS
    /\ now' = now + TICK_MS
    /\ UNCHANGED <<env, embedVars, embed, batch, qdrantVars, upsert, sync, query,
                   search, format, cache, lexical, scriptVars>>

\* both formatFaqContext functions are applied to the FAQs
FormatCall(faqs) ==
    /\ format' = [pc |-> "returned", faqs |-> faqs,
                  vector |-> formatFaqContext([k \in 1..Len(faqs) |-> VectorView(faqs[k])]),
                  lexical |-> Lex_formatFaqContext(faqs)]
    /\ UNCHANGED <<env, embedVars, embed, batch, qdrantVars, upsert, sync, query,
                   search, lexVars, scriptVars>>

\* a caller invokes testConnection(), ensureQdrantCollection(),
\* getCollectionInfo() or deletePoint(arg) while no sync script runs
AdapterCall(op, arg) ==
    /\ script.pc = "idle"
    /\ adapter.pc \in {"idle", "returned", "threw"}
    /\ LET a == AdapterBegin(op, arg, qdrantClient)
       IN adapter' = a /\ qdrantClient' = a.client
    /\ UNCHANGED <<env, embedVars, embed, batch, collection, index, upsert, sync, query,
                   search, format, lexVars, script>>

\* client.getCollections answers testConnection or ensureCollection
AdapterListReturn(answer) ==
    /\ adapter.pc = "awaitList"
    /\ LET a == AdapterAfterList(adapter, answer, qdrantClient)
       IN /\ adapter' = a
          /\ qdrantClient' = IF a.pc = "awaitInfo" THEN a.client ELSE qdrantClient
    /\ UNCHANGED <<env, embedVars, embed, batch, collection, index, upsert, sync, query,
                   search, format, lexVars, script>>

\* client.createCollection answers ensureCollection: the server has created
\* the collection, or reports an error
AdapterCreateReturn(answer) ==
    /\ adapter.pc = "awaitCreate"
    /\ answer.t = "ok" => ~collection.exists
    /\ collection' = IF answer.t = "ok" THEN CreatedCollection ELSE collection
    /\ LET a == AdapterAfterCreate(adapter, answer, qdrantClient)
       IN /\ adapter' = a
          /\ qdrantClient' = IF a.pc = "awaitInfo" THEN a.client ELSE qdrantClient
    /\ UNCHANGED <<env, embedVars, embed, batch, index, upsert, sync, query,
                   search, format, lexVars, script>>

\* client.getCollection answers getCollectionInfo: the info of the
\* collection when the server has it, or an error
AdapterInfoReturn(answer) ==
    /\ adapter.pc = "awaitInfo"
    /\ answer.t = "ok" => collection.exists
    /\ adapter' = AdapterAfterInfo(adapter,
                     IF answer.t = "ok" THEN [t |-> "ok", info |-> CollectionInfo] ELSE answer)
    /\ UNCHANGED <<env, embedVars, embed, batch, qdrantVars, upsert, sync, query,
                   search, format, lexVars, script>>

\* client.delete answers deletePoint (wait: true): the server has removed
\* the point, or reports an error
AdapterDeleteReturn(answer) ==
    /\ adapter.pc = "awaitDelete"
    /\ answer.t = "ok" => collection.exists
    /\ index' = IF answer.t = "ok" THEN RemovePoint(index, adapter.arg.n) ELSE index
    /\ adapter' = AdapterAfterDelete(adapter, answer)
    /\ UNCHANGED <<env, embedVars, embed, batch, collection, qdrantClient, upsert, sync,
                   query, search, format, lexVars, script>>

\* The steps of main(): after each awaited call has settled, main() resumes
\* in a step of its own (the continuation of an `await` is queued when the
\* promise settles and runs before any further I/O completes).
\* syncScript.js lines 9 to 12: `node syncScript.js` starts main(), which
\* calls testConnection()
ScriptStart ==
    /\ script.pc = "idle" /\ adapter.pc = "idle" /\ sync.pc = "idle"
    /\ script' = [script EXCEPT !.pc = "test1"]
    /\ LET a == AdapterBegin("testConnection", Undef, qdrantClient)
       IN adapter' = a /\ qdrantClient' = a.client
    /\ UNCHANGED <<env, embedVars, embed, batch, collection, index, upsert, sync, query,
                   search, format, lexVars>>

\* lines 12 to 20: main() resumes with the first test's result: reading
\* `.connected` of undefined throws into the catch, a result that is not
\* connected exits with 1, otherwise ensureQdrantCollection() is called
ScriptAfterFirstTest ==
    /\ script.pc = "test1" /\ adapter.pc \in {"returned", "threw"}
    /\ LET s == [script EXCEPT !.first = adapter.out]
           a == AdapterBegin("ensureQdrantCollection", Undef, qdrantClient)
       IN IF adapter.pc = "threw" \/ adapter.out = Undef
          THEN script' = MainCatch(s) /\ UNCHANGED <<adapter, qdrantClient>>
          ELSE IF ~Connected(adapter.out)
          THEN script' = ProcessExit(s, 1) /\ UNCHANGED <<adapter, qdrantClient>>
          ELSE /\ script' = [s EXCEPT !.pc = "ensure"]
               /\ adapter' = a /\ qdrantClient' = a.client
    /\ UNCHANGED <<env, embedVars, embed, batch, collection, index, upsert, sync, query,
                   search, format, lexVars>>

\* lines 20 to 22: ensureQdrantCollection() has returned, and
\* testConnection() is called again, or it has thrown into the catch
ScriptAfterEnsure ==
    /\ script.pc = "ensure" /\ adapter.pc \in {"returned", "threw"}
    /\ LET a == AdapterBegin("testConnection", Undef, qdrantClient)
       IN IF adapter.pc = "threw"
          THEN script' = MainCatch(script) /\ UNCHANGED <<adapter, qdrantClient>>
          ELSE /\ script' = [script EXCEPT !.pc = "test2"]
               /\ adapter' = a /\ qdrantClient' = a.client
    /\ UNCHANGED <<env, embedVars, embed, batch, collection, index, upsert, sync, query,
                   search, format, lexVars>>

\* lines 22 to 30: main() resumes with the second test's result: reading
\* `.pointCount` of undefined throws into the catch; otherwise syncFaqs() is
\* called, which enters ensureCollection (sync.js line 75)
ScriptAfterSecondTest ==
    /\ script.pc = "test2" /\ adapter.pc \in {"returned", "threw"}
    /\ IF adapter.pc = "threw" \/ adapter.out = Undef
       THEN script' = MainCatch(script) /\ UNCHANGED <<sync, qdrantClient>>
       ELSE /\ script' = [script EXCEPT !.pc = "sync"]
            /\ sync' = [SyncIdle EXCEPT !.pc = "getCollections", !.run = 1,
                                        !.log = <<"ensureCollection">>,
                                        !.before = [collection |-> collection, index |-> index]]
            /\ qdrantClient' = GetQdrantClient(qdrantClient)
    /\ UNCHANGED <<env, embedVars, embed, batch, collection, index, upsert, query,
                   search, format, lexVars, adapter>>

\* lines 30 to 34: syncFaqs() has returned its report, and testConnection()
\* is called a last time, or it has thrown into the catch
ScriptAfterSync ==
    /\ script.pc = "sync" /\ sync.pc \in {"done", "failed"}
    /\ LET a == AdapterBegin("testConnection", Undef, qdrantClient)
       IN IF sync.pc = "failed"
          THEN script' = MainCatch(script) /\ UNCHANGED <<adapter, qdrantClient>>
          ELSE /\ script' = [script EXCEPT !.pc = "test3", !.result = sync.report]
               /\ adapter' = a /\ qdrantClient' = a.client
    /\ UNCHANGED <<env, embedVars, embed, batch, collection, index, upsert, sync, query,
                   search, format, lexVars>>

\* lines 34 to 44: main() resumes with the last test's result: reading
\* `.pointCount` of undefined throws into the catch; otherwise the summary
\* is logged and the process exits with 0
ScriptAfterFinalTest ==
    /\ script.pc = "test3" /\ adapter.pc \in {"returned", "threw"}
    /\ script' = IF adapter.pc = "threw" \/ adapter.out = Undef
                 THEN MainCatch(script) ELSE ProcessExit(script, 0)
    /\ UNCHANGED <<env, embedVars, embed, batch, qdrantVars, upsert, sync, query,
                   search, format, lexVars, adapter>>

(***************************************************************************)
(* Specifications.                                                         *)
(***************************************************************************)
InitCommon ==
    /\ pending = {}
    /\ remoteCalls = 0
    /\ embed = EmbedIdle
    /\ batch = BatchIdle
    /\ qdrantClient = Null
    /\ upsert = UpsertIdle
    /\ sync = SyncIdle
    /\ query = QueryIdle
    /\ search = SearchIdle
    /\ format = FormatIdle
    /\ cache = CacheEmpty
    /\ now = 0
    /\ lexical = [c \in Callers |-> LexIdle]
    /\ adapter = AdapterIdle
    /\ script = ScriptIdle

\* direct calls of generateEmbedding
InitEmbed ==
    /\ env \in Envs(GoogleKeys, {Undef, Str(<<"k">>)}, DimSettings, {Undef}, ModelDims)
    /\ collection = NoCollection /\ index = <<>>
    /\ InitCommon

NextEmbed ==
    \/ \E text \in EmbedArgs : EmbedStart(text)
    \/ \E c \in pending : \E resp \in RemoteResponses(c.text) : EmbedReturn(c, resp)

SpecEmbed == InitEmbed /\ [][NextEmbed]_vars

\* direct calls of generateEmbeddingsBatch
InitBatch ==
    /\ env \in Envs({Undef, Str(<<"k">>)}, {Undef}, {Undef}, {Undef}, {DEFAULT_DIMENSIONS})
    /\ collection = NoCollection /\ index = <<>>
    /\ InitCommon

NextBatch ==
    \/ \E texts \in BatchArgs : BatchCall(texts)
    \/ \E c \in pending : \E resp \in RemoteResponses(c.text) : BatchEmbedReturn(c, resp)
    \/ BatchDelayElapsed

SpecBatch == InitBatch /\ [][NextBatch]_vars

\* direct calls of upsertPoints, one after the other
InitUpsert ==
    /\ env \in Envs({Str(<<"k">>)}, {Undef}, {Undef}, {Undef}, {DEFAULT_DIMENSIONS})
    /\ \E srv \in InitialServers : collection = srv.collection /\ index = srv.index
    /\ InitCommon

NextUpsert ==
    \/ \E points \in UpsertArgs : UpsertCall(points)
    \/ \E outcome \in {"ok", "error"} : UpsertReturn(outcome)

SpecUpsert == InitUpsert /\ [][NextUpsert]_vars

\* getFaqContext of the vector strategy over a synced collection
InitQuery ==
    /\ env \in Envs(GoogleKeys, {Undef}, {Undef}, {Undef}, {DEFAULT_DIMENSIONS})
    /\ \E srv \in InitialServers : \E ps \in SeqsUpTo({p \in PointArgs : CheckPoint(p) = "ok"}, MaxPoints) :
         /\ collection = srv.collection
         /\ index = IF srv.collection.exists
                    THEN ApplyUpsert(srv.index, [k \in 1..Len(ps) |-> PreparePoint(ps[k])])
                    ELSE srv.index
    /\ InitCommon

NextQuery ==
    \/ \E q \in QueryArgs : QueryStart(q)
    \/ \E c \in pending : \E resp \in RemoteResponses(c.text) : QueryEmbedReturn(c, resp)
    \/ \E answer \in SearchAnswers(index, DEFAULT_LIMIT, SCORE_THRESHOLD) : QuerySearchReturn(answer)

SpecQuery == InitQuery /\ [][NextQuery]_vars

\* the arguments a caller may hand to searchVectors besides the vector
LimitArgs == {Undef, Num(1), Num(DEFAULT_LIMIT)}
ThresholdArgs == {Undef, Num(SCORE_THRESHOLD)}

\* direct calls of searchVectors over a synced collection
InitSearch == InitQuery

NextSearch ==
    \/ \E limit \in LimitArgs : \E scoreThreshold \in ThresholdArgs :
         SearchCall(limit, scoreThreshold)
    \/ /\ search.pc = "awaitSearch"
       /\ \E answer \in SearchAnswers(index, search.req.limit, search.req.score_threshold) :
            SearchReturn(answer)

SpecSearch == InitSearch /\ [][NextSearch]_vars

\* the lexical getFaqContext, one call at a time, over any feed and query
InitSelect ==
    /\ env \in LexEnvs({Str(<<"h">>)}, {Undef, Str(<<"1">>)}, {Undef, Str(<<"4", "0">>)})
    /\ collection = NoCollection /\ index = <<>>
    /\ InitCommon

NextSelect ==
    \/ \E q \in LexQueries : LexStart("c1", q)
    \/ \E d \in LexFeedBodies : LexGetReturn("c1", [t |-> "ok", data |-> d])
    \/ LexGetReturn("c1", [t |-> "error"])

SpecSelect == InitSelect /\ [][NextSelect]_vars

\* direct calls of the two formatFaqContext functions
InitFormat ==
    /\ env \in LexEnvs({Str(<<"h">>)}, {Undef},
                       {Undef, Str(<<"4", "0">>), Str(<<"7">>)})
    /\ collection = NoCollection /\ index = <<>>
    /\ InitCommon

NextFormat == \E faqs \in SeqsUpTo(FormatRecords, MaxFaqs) : FormatCall(faqs)

SpecFormat == InitFormat /\ [][NextFormat]_vars

\* what the source may answer to a fetch of the cache: an error, a
\* non-array body, the empty list or a list of one or two FAQs
CacheFetchAnswers ==
    {[t |-> "error"]} \cup
    { [t |-> "ok", data |-> d] :
        d \in { Str(<<"x">>), List(<<>>),
                List(<<Obj([question |-> Str(<<"a">>)])>>),
                List(<<Obj([question |-> Str(<<"b">>)]), Obj([question |-> Str(<<"a">>)])>>) } }

\* overlapping calls of the lexical getFaqContext while time passes
InitCache ==
    /\ env \in LexEnvs({Undef, Str(<<>>), Str(<<"h">>)}, {Undef}, {Undef})
    /\ collection = NoCollection /\ index = <<>>
    /\ InitCommon

NextCache ==
    \/ \E c \in Callers : LexStart(c, Str(<<"a">>))
    \/ \E c \in Callers : \E answer \in CacheFetchAnswers : LexGetReturn(c, answer)
    \/ Tick

SpecCache == InitCache /\ [][NextCache]_vars

\* both strategies in one process: vector queries of one conversation while
\* another conversation uses the lexical getFaqContext
InitRetrieval ==
    /\ env \in { e @@ [FAQ_CACHE_TTL_MS |-> Undef, FAQ_MAX_RESULTS |-> Undef,
                       FAQ_CONTEXT_CHAR_LIMIT |-> Undef] :
                  e \in Envs(GoogleKeys, {Undef}, {Undef}, {Str(<<"h">>)}, {DEFAULT_DIMENSIONS}) }
    /\ \E srv \in InitialServers : collection = srv.collection /\ index = srv.index
    /\ InitCommon

NextRetrieval ==
    \/ \E q \in {Str(<<>>), Str(<<"q">>)} : QueryStart(q)
    \/ \E c \in pending : \E resp \in RemoteResponses(c.text) : QueryEmbedReturn(c, resp)
    \/ \E answer \in SearchAnswers(index, DEFAULT_LIMIT, SCORE_THRESHOLD) : QuerySearchReturn(answer)
    \/ LexStart("c1", Str(<<"a">>))
    \/ \E answer \in CacheFetchAnswers : LexGetReturn("c1", answer)

SpecRetrieval == InitRetrieval /\ [][NextRetrieval]_vars

\* the errors a call of the Qdrant client may throw: rejected as forbidden
\* or unauthorized (by status, by message, or both), a server error, and an
\* unreachable server
BackendErrors ==
    { BackendError(sForbidden, Num(403)),
      BackendError(<<"U", "n", "a", "u", "t", "h", "o", "r", "i", "z", "e", "d">>, Num(401)),
      BackendError(<<"H", "T", "T", "P", " ", "4", "0", "3">>, Undef),
      BackendError(<<>>, Num(401)),
      BackendError(<<"I", "n", "t", "e", "r", "n", "a", "l">>, Num(500)),
      BackendError(<<"f", "e", "t", "c", "h", " ", "f", "a", "i", "l", "e", "d">>, Undef) }

\* what a call of the Qdrant client may answer
BackendAnswers(errors) == {[t |-> "ok"]} \cup {[t |-> "error", error |-> e] : e \in errors}

\* the adapter's operations called in any order in one process
InitAdapter ==
    /\ env \in Envs({Str(<<"k">>)}, {Undef}, {Undef}, {Undef}, {DEFAULT_DIMENSIONS})
    /\ \E srv \in InitialServers : collection = srv.collection /\ index = srv.index
    /\ InitCommon

NextAdapter ==
    \/ \E op \in {"testConnection", "ensureQdrantCollection", "getCollectionInfo"} :
         AdapterCall(op, Undef)
    \/ AdapterCall("deletePoint", Num(1))
    \/ \E answer \in BackendAnswers(BackendErrors) : AdapterListReturn(answer)
    \/ \E answer \in BackendAnswers(BackendErrors) : AdapterCreateReturn(answer)
    \/ \E answer \in BackendAnswers(BackendErrors) : AdapterInfoReturn(answer)
    \/ \E answer \in BackendAnswers(BackendErrors) : AdapterDeleteReturn(answer)
    \/ \E points \in {List(<<>>), List(<<[id |-> Str(<<"1">>), payload |-> Undef,
                                          vector |-> Vec(DEFAULT_DIMENSIONS, Str(<<"q">>))]>>)} :
         UpsertCall(points)
    \/ \E outcome \in {"ok", "error"} : UpsertReturn(outcome)
    \/ SearchCall(Undef, Undef)
    \/ /\ search.pc = "awaitSearch"
       /\ \E answer \in SearchAnswers(index, search.req.limit, search.req.score_threshold) :
            SearchReturn(answer)

SpecAdapter == InitAdapter /\ [][NextAdapter]_vars

\* the errors offered to one run of the sync script
ScriptErrors ==
    { BackendError(sForbidden, Num(403)),
      BackendError(<<"f", "e", "t", "c", "h", " ", "f", "a", "i", "l", "e", "d">>, Undef) }

\* one run of `node syncScript.js`; nothing runs once the process has
\* exited.  The ensureCollection of syncFaqs always finds the collection,
\* which ensureQdrantCollection has just ensured, so it never creates it.
InitScript ==
    /\ env \in Envs({Str(<<"k">>)}, {Undef}, {Undef}, UrlSettings, {DEFAULT_DIMENSIONS})
    /\ \E srv \in InitialServers : collection = srv.collection /\ index = srv.index
    /\ InitCommon

NextScript ==
    \/ ScriptStart
    \/ \E answer \in BackendAnswers(ScriptErrors) : AdapterListReturn(answer)
    \/ \E answer \in BackendAnswers(ScriptErrors) : AdapterCreateReturn(answer)
    \/ \E answer \in BackendAnswers(ScriptErrors) : AdapterInfoReturn(answer)
    \/ ScriptAfterFirstTest
    \/ ScriptAfterEnsure
    \/ ScriptAfterSecondTest
    \/ script.pc = "sync" /\ \E outcome \in {"ok", "error"} : EnsureListReturn(outcome)
    \/ script.pc = "sync" /\ \E answer \in FetchAnswers(sync.run) : FetchReturn(answer)
    \/ script.pc = "sync" /\ \E c \in pending : \E resp \in RemoteResponses(c.text) :
                               BatchEmbedReturn(c, resp)
    \/ script.pc = "sync" /\ BatchDelayElapsed
    \/ script.pc = "sync" /\ \E outcome \in {"ok", "error"} : UpsertReturn(outcome)
    \/ ScriptAfterSync
    \/ ScriptAfterFinalTest

SpecScript == InitScript /\ [][NextScript]_vars

\* runs of syncFaqs, one after the other
Init ==
    /\ env \in Envs({Undef, Str(<<"k">>)}, {Undef}, DimSettings, UrlSettings, {DEFAULT_DIMENSIONS})
    /\ \E srv \in InitialServers : collection = srv.collection /\ index = srv.index
    /\ InitCommon

Next ==
    \/ SyncStart
    \/ \E outcome \in {"ok", "error"} : EnsureListReturn(outcome)
    \/ \E outcome \in {"ok", "error"} : EnsureCreateReturn(outcome)
    \/ \E answer \in FetchAnswers(sync.run) : FetchReturn(answer)
    \/ \E c \in pending : \E resp \in RemoteResponses(c.text) : BatchEmbedReturn(c, resp)
    \/ BatchDelayElapsed
    \/ \E outcome \in {"ok", "error"} : UpsertReturn(outcome)

Spec == Init /\ [][Next]_vars

(***************************************************************************)
(* Properties of the embedding adapter.                                    *)
(***************************************************************************)
BatchInFlight == {c \in pending : c.owner = "batch" /\ c.gen = batch.gen}

\* C6: when generateEmbeddingsBatch returns, it returns exactly texts.length
\* vectors and the vector at position p is the embedding of texts[p]; when it
\* fails it returns nothing.
C6_BatchOrderAndCount ==
    /\ batch.pc = "returned" =>
         /\ Len(batch.embeddings) = Len(batch.texts)
         /\ \A p \in 1..Len(batch.texts) :
              batch.embeddings[p] = Vec(env.modelDim, batch.texts[p])
    /\ batch.pc = "threw" => batch.err # ""

\* a batch call returned 11 vectors after a call completed out of order
C6_Witness ==
    /\ batch.pc = "returned"
    /\ Len(batch.texts) = batchSize + 1
    /\ batch.reordered

IssueEvents == {k \in 1..Len(batch.log) : batch.log[k].e = "issue"}
DelayEvents == {k \in 1..Len(batch.log) : batch.log[k].e = "delay"}

\* C7: at most batchSize embedding calls are in flight; the calls in flight
\* all belong to the current batch, which was issued whole (every call of it
\* is in flight or completed); every earlier batch has completed; issues and
\* 100 ms delays alternate, and the run does not end with a delay.
C7_BatchConcurrency ==
    /\ Cardinality(BatchInFlight) <= batchSize
    /\ \A c \in BatchInFlight : c.pos \in Slice(batch)
    /\ batch.pc = "awaitAll" =>
         {c.pos : c \in BatchInFlight} = {p \in Slice(batch) : batch.results[p] = Pending}
    /\ batch.pc \in {"awaitAll", "threw"} => Len(batch.embeddings) = batch.i
    /\ batch.pc = "delay" => BatchInFlight = {}
    /\ \A k \in 1..Len(batch.log) :
         /\ batch.log[k].e = (IF k % 2 = 1 THEN "issue" ELSE "delay")
         /\ batch.log[k].e = "issue" =>
              batch.log[k].slice =
                (batchSize * (k \div 2) + 1) .. Min(batchSize * (k \div 2) + batchSize, Len(batch.texts))
         /\ batch.log[k].e = "delay" => batch.log[k].ms = BATCH_DELAY_MS
    /\ batch.pc = "returned" /\ batch.texts # <<>> =>
         /\ batch.log[Len(batch.log)].e = "issue"
         /\ Cardinality(IssueEvents) = (Len(batch.texts) + batchSize - 1) \div batchSize
         /\ Cardinality(DelayEvents) = Cardinality(IssueEvents) - 1

\* a call over 11 texts returned after two batches with one delay between them
C7_Witness ==
    /\ batch.pc = "returned"
    /\ Len(batch.texts) > batchSize
    /\ Cardinality(IssueEvents) = 2
    /\ Cardinality(DelayEvents) = 1

CredentialMissing ==
    /\ env.GOOGLE_KEY \in {Undef, Str(<<>>)}
    /\ env.GOOGLE_API_KEY \in {Undef, Str(<<>>)}

TextBlank(text) == text.t # "str" \/ \A k \in 1..Len(text.s) : text.s[k] = " "

MalformedAnswer(resp) ==
    resp.t = "ok" /\ (resp.values.t # "arr" \/ resp.values.len = 0)

\* C8: generateEmbedding rejects when the credential is absent or empty and
\* when the text is no string or blank, both without a remote call; and it
\* rejects when the provider answers without a non-empty array.
C8_EmbedFails ==
    embed.pc # "idle" =>
      /\ CredentialMissing \/ TextBlank(embed.text) =>
           embed.pc = "rejected" /\ remoteCalls = 0
      /\ embed.pc \in {"resolved", "rejected"} /\ "resp" \in DOMAIN embed =>
           (MalformedAnswer(embed.resp) => embed.pc = "rejected")

\* a whitespace-only text was rejected with a good credential and no remote call
C8_Witness ==
    /\ embed.pc = "rejected"
    /\ embed.text = Str(<<" ">>)
    /\ ~CredentialMissing
    /\ remoteCalls = 0

\* C9 (as claimed): a successful generateEmbedding returns a vector of the
\* configured dimension, and a blank text fails.
C9_EmbedDimension ==
    /\ embed.pc = "resolved" => embed.v.len = EMBEDDING_DIMENSIONS
    /\ embed.pc # "idle" /\ TextBlank(embed.text) => embed.pc = "rejected"

(***************************************************************************)
(* Properties of the vector retrieval.                                     *)
(***************************************************************************)
\* C1: getFaqContext of the vector strategy never throws; whenever the
\* embedding or the search failed (the error is kept in query.err) the call
\* has returned null, and any other return is null or a non-empty string.
C1_QueryNeverRaises ==
    /\ query.pc \in {"idle", "embed", "search", "returned"}
    /\ query.pc = "returned" =>
         IF query.err # "" THEN query.out = Null
         ELSE query.out = Null \/ (IsStr(query.out) /\ query.out.s # <<>>)

\* the embedding succeeded, the search failed and the call returned null
C1_Witness ==
    /\ query.pc = "returned"
    /\ query.err = "SearchError"
    /\ query.out = Null

(***************************************************************************)
(* Properties of the sync orchestrator.                                    *)
(***************************************************************************)
StageOrder ==
    <<"ensureCollection", "fetchFaqs", "buildRecords", "generateEmbeddingsBatch",
      "mapToPoints", "upsertPoints", "report">>

IsPrefix(a, b) == Len(a) <= Len(b) /\ SubSeq(b, 1, Len(a)) = a

Stages(s) == {s.log[k] : k \in 1..Len(s.log)}

ZeroReport == [synced |-> 0, updated |-> 0, errors |-> 0]

\* the run has ended with a report after fetching no record
EmptyRunDone == sync.pc = "done" /\ sync.faqs = <<>>

\* C2: the stages of a run are entered in the fixed order, each at most once
\* (the empty-source run goes from fetchFaqs to report); a failed run ends at
\* the stage that failed with its error propagated and no report, entered no
\* later stage, and when an earlier stage than upsertPoints failed,
\* upsertPoints was not called and the points of the index are as they were;
\* upsertPoints and generateEmbeddingsBatch are called only in their stage.
C2_SyncStageOrder ==
    /\ \/ IsPrefix(sync.log, StageOrder)
       \/ sync.log = <<"ensureCollection", "fetchFaqs", "report">>
    /\ sync.pc = "failed" =>
         /\ sync.err # ""
         /\ sync.failedAt = sync.log[Len(sync.log)]
         /\ sync.report = Null
         /\ sync.failedAt # "upsertPoints" =>
              upsert.pc = "idle" /\ index = sync.before.index
    /\ sync.pc \in {"done", "failed"} <=> sync.failedAt # "" \/ "report" \in Stages(sync)
    /\ upsert.pc # "idle" => "upsertPoints" \in Stages(sync)
    /\ batch.pc # "idle" => "generateEmbeddingsBatch" \in Stages(sync)

\* a run failed in generateEmbeddingsBatch and upsertPoints was never called
C2_Witness ==
    /\ sync.pc = "failed"
    /\ sync.failedAt = "generateEmbeddingsBatch"
    /\ Len(sync.faqs) = 2
    /\ upsert.pc = "idle"

\* C3: a run whose fetch yields no record returns {synced:0, updated:0,
\* errors:0} and calls neither generateEmbeddingsBatch nor upsertPoints.
C3_EmptySourceReport ==
    EmptyRunDone =>
      /\ sync.report = ZeroReport
      /\ batch.pc = "idle" /\ remoteCalls = 0
      /\ upsert.pc = "idle"

\* a run over a configured, empty source has ended
C3_Witness == EmptyRunDone /\ Truthy(env.FAQ_API_URL)

\* C4 (as claimed): a run with zero source records changes nothing at the
\* server: no collection is created and no point is written.
C4_EmptyRunTouchesNothing ==
    EmptyRunDone => collection = sync.before.collection /\ index = sync.before.index

\* C4 (amended): a run with zero source records calls no upsert and leaves
\* the points as they were; the one change it can make is ensureCollection's
\* creation of the collection that was absent.
C4_EmptyRunWritesNoPoint ==
    EmptyRunDone =>
      /\ "upsertPoints" \notin Stages(sync) /\ upsert.pc = "idle"
      /\ index = sync.before.index
      /\ \/ collection = sync.before.collection
         \/ ~sync.before.collection.exists /\ collection = CreatedCollection

\* a zero-record run has created the collection
C4_Witness ==
    EmptyRunDone /\ ~sync.before.collection.exists /\ collection.exists

\* C5 (as claimed): every completed run reports the number of fetched records
\* with updated = errors = 0, after upsertPoints was acknowledged.
C5_ReportAfterUpsert ==
    sync.pc = "done" =>
      /\ sync.report = [synced |-> Len(sync.faqs), updated |-> 0, errors |-> 0]
      /\ upsert.pc = "returned" /\ upsert.caller = "sync"

\* C5 (amended): every completed run reports the number of fetched records
\* with updated = errors = 0; when records were fetched, upsertPoints has
\* been acknowledged and their points are in the index.
C5_ReportCounts ==
    sync.pc = "done" =>
      /\ sync.report = [synced |-> Len(sync.faqs), updated |-> 0, errors |-> 0]
      /\ sync.faqs # <<>> =>
           /\ upsert.pc = "returned" /\ upsert.caller = "sync"
           /\ \A k \in 1..Len(sync.faqData) : PointId(sync.faqData[k].faqId) \in DOMAIN index

\* a run over the feed of eleven records has completed
C5_Witness == sync.pc = "done" /\ Len(sync.faqs) = batchSize + 1

(***************************************************************************)
(* Properties of the Qdrant adapter.                                       *)
(***************************************************************************)
\* C10: when upsertPoints is called again with the list of the call that has
\* just returned, the acknowledged second upsert leaves every point of the
\* index (ids, vectors, payloads) as the first one left it.
C10_UpsertIdempotent ==
    [][upsert.pc = "awaitUpsert" /\ upsert.again /\ upsert'.pc = "returned"
         => index' = index]_vars

\* the second upsert of a list of two points has been acknowledged
C10_Witness ==
    /\ upsert.pc = "returned"
    /\ upsert.again
    /\ Len(upsert.prepared) = 2
    /\ upsert.prepared[1].id # upsert.prepared[2].id

\* the points the current upsertPoints call was handed and has prepared
UpsertSent == IF upsert.prepared = <<>> THEN {} ELSE 1..Len(upsert.prepared)

\* the identifier parses as an integer
ParsesAsInteger(id) == ParseInt(id.s) # NaN

\* C11 (as claimed): the point id of an identifier is the integer it parses
\* as and otherwise the sum of the identifier's character codes.
C11_PointIdMapping ==
    \A k \in UpsertSent :
      LET id == upsert.arg.items[k].id
      IN upsert.prepared[k].id =
           IF ParsesAsInteger(id) THEN ParseInt(id.s).n ELSE CharSum(id.s)

\* C12 (as claimed): every point id sent to the index is a non-negative
\* integer, and an id obtained by the character-code sum is positive.
C12_PointIdNonNegative ==
    \A k \in UpsertSent :
      LET id == upsert.arg.items[k].id
      IN /\ upsert.prepared[k].id >= 0
         /\ ~ParsesAsInteger(id) => upsert.prepared[k].id > 0

\* C13: ensureCollection issues createCollection only when the collection is
\* absent; the collection changes only by being created, with the declared
\* dimension and cosine distance, so it is created at most once and an
\* existing collection keeps its dimension and metric over any number of
\* runs.
C13_EnsureCollectionIdempotent ==
    /\ [](sync.pc = "createCollection" => ~collection.exists)
    /\ [][collection' # collection =>
            /\ ~collection.exists
            /\ sync.pc = "createCollection"
            /\ collection' = [exists |-> TRUE, size |-> EMBEDDING_DIMENSIONS,
                              distance |-> "Cosine"]]_vars

\* the second ensureCollection has returned over a collection whose dimension
\* differs from the declared one, and has left it as it was
C13_Witness ==
    /\ sync.run = 2
    /\ "fetchFaqs" \in Stages(sync)
    /\ collection.exists /\ collection = sync.before.collection
    /\ collection.size # EMBEDDING_DIMENSIONS

\* C14: searchVectors returns at most `limit` results, each with a score at
\* or above `scoreThreshold` (the parameters default to 5 and 0; the
\* retrieval passes 5 and 0.5); it throws only when the search failed, so an
\* empty result comes back as an empty list.
C14_SearchBounds ==
    LET limit == IF search.args.limit = Undef THEN 5 ELSE search.args.limit.n
        scoreThreshold == IF search.args.scoreThreshold = Undef THEN 0
                          ELSE search.args.scoreThreshold.n
    IN /\ search.pc = "returned" =>
            /\ Len(search.results) <= limit
            /\ \A k \in 1..Len(search.results) : search.results[k].score >= scoreThreshold
            /\ search.err = ""
       /\ search.pc = "threw" => search.err = "SearchError"

\* a search with limit 1 and threshold 0.5 over two stored points has
\* returned one result
C14_Witness ==
    /\ search.pc = "returned"
    /\ search.args = [limit |-> Num(1), scoreThreshold |-> Num(SCORE_THRESHOLD)]
    /\ Cardinality(DOMAIN index) >= 2
    /\ Len(search.results) = 1

(***************************************************************************)
(* Properties of the lexical strategy.                                     *)
(***************************************************************************)
\* the lexical getFaqContext calls that have returned over a non-empty list
LexReturned == {c \in Callers : lexical[c].pc = "returned" /\ lexical[c].faqs.items # <<>>}

\* the positions of the fetched FAQs that score against the query of call c
Scoring(c) ==
    LET l == lexical[c]
    IN IF ~IsStr(l.query) THEN {}
       ELSE {p \in 1..Len(l.faqs.items) : Score(l.faqs.items[p], Tokens(l.query)) > 0}

\* how many scoring FAQs come before the one at position p: those with a
\* higher score and those with the same score earlier in the source
Rank(c, p) ==
    LET l == lexical[c]
        sc(j) == Score(l.faqs.items[j], Tokens(l.query))
    IN Cardinality({j \in Scoring(c) : sc(j) > sc(p) \/ (sc(j) = sc(p) /\ j < p)})

\* C15: when some FAQ scores against the query, selectRelevantFaqs returns
\* FAQs with a positive score only, by descending score with equal scores in
\* source order, cut at the result limit.
C15_SelectByScore ==
    \A c \in LexReturned :
      LET l == lexical[c]
      IN Scoring(c) # {} =>
           /\ Len(l.relevant) = Min(Cardinality(Scoring(c)), Lex_DEFAULT_LIMIT)
           /\ \A p \in Scoring(c) :
                Rank(c, p) < Lex_DEFAULT_LIMIT => l.relevant[Rank(c, p) + 1] = l.faqs.items[p]

\* two scoring FAQs were returned in the reverse of their source order
C15_Witness ==
    \E c \in LexReturned :
      LET l == lexical[c]
      IN /\ Len(l.faqs.items) = 2 /\ Scoring(c) = {1, 2}
         /\ l.relevant = <<l.faqs.items[2], l.faqs.items[1]>>
         /\ l.faqs.items[1] # l.faqs.items[2]

\* C16: over a non-empty list selectRelevantFaqs returns something: for an
\* empty, non-string or blank query, and when no token scores, the first
\* `limit` FAQs in source order; over an empty list getFaqContext returns
\* null.
C16_SelectFallback ==
    \A c \in Callers :
      LET l == lexical[c]
      IN l.pc = "returned" =>
           IF l.faqs.items = <<>> THEN l.out = Null
           ELSE /\ l.relevant # <<>> /\ IsStr(l.out)
                /\ Scoring(c) = {} =>
                     l.relevant = SubSeq(l.faqs.items, 1,
                                         Min(Len(l.faqs.items), Lex_DEFAULT_LIMIT))

\* a query that matches nothing got the first FAQ of two, the limit being 1
C16_Witness ==
    \E c \in LexReturned :
      LET l == lexical[c]
      IN /\ l.query = Str(<<"z">>) /\ Len(l.faqs.items) = 2 /\ Lex_DEFAULT_LIMIT = 1
         /\ l.relevant = <<l.faqs.items[1]>>

(***************************************************************************)
(* Properties of the context formatters.                                   *)
(***************************************************************************)
\* "FAQ 1:\nQuestion: Q1\nAnswer: A1"
sExample ==
    <<"F", "A", "Q", " ", "1", ":", "\n", "Q", "u", "e", "s", "t", "i", "o", "n", ":", " ",
      "Q", "1", "\n", "A", "n", "s", "w", "e", "r", ":", " ", "A", "1">>

\* the renderings of format.faqs before truncation
VectorWhole ==
    Join([k \in 1..Len(format.faqs) |-> FaqBlock(VectorView(format.faqs[k]), k - 1)],
         sBlankLine)
LexicalWhole ==
    Join([k \in 1..Len(format.faqs) |-> Lex_FaqBlock(format.faqs[k], k - 1)], sBlankLine)

LexEnters(c) == lexical[c].pc # "awaitGet" /\ lexical'[c] # lexical[c]

\* the fetch of conversation c fails in this step
LexFetchFails(c) == lexical[c].pc = "awaitGet" /\ lexical'[c].failed

\* C18: a fetchFaqs call made while the cache holds a value, an empty list
\* included, and before its expiresAt returns that value in the same turn,
\* issues no HTTP fetch and leaves the cache as it is.
C18_CacheHit ==
    [][\A c \in Callers :
         LexEnters(c) /\ cache.value # Null /\ now < cache.expiresAt =>
           /\ lexical'[c].pc = "returned"
           /\ lexical'[c].faqs = cache.value
           /\ cache' = cache]_vars

\* a call was answered from a cached empty list
C18_Witness ==
    \E c \in Callers :
      /\ lexical[c].pc = "returned" /\ lexical[c].hit
      /\ lexical[c].faqs = List(<<>>)
      /\ cache.value = List(<<>>) /\ lexical[c].now < cache.expiresAt

\* C19: the lexical fetchFaqs never throws: when the HTTP fetch fails the
\* call returns the value the cache holds, or [] when it holds none, and the
\* cache stays as it is.
C19_FetchFailureDegrades ==
    /\ [](\A c \in Callers : lexical[c].pc \in {"idle", "awaitGet", "returned"})
    /\ [][\A c \in Callers :
            LexFetchFails(c) =>
              /\ lexical'[c].pc = "returned"
              /\ lexical'[c].faqs = IF cache.value = Null THEN List(<<>>) ELSE cache.value
              /\ cache' = cache]_vars

\* a fetch made after the entry had expired failed and returned the cached
\* FAQs
C19_Witness ==
    \E c \in Callers :
      /\ lexical[c].pc = "returned" /\ lexical[c].failed
      /\ lexical[c].faqs.items # <<>>
      /\ lexical[c].faqs = cache.value /\ lexical[c].now >= cache.expiresAt

\* C20 (as claimed, for the fetcher of the lexical strategy): without a
\* configured source URL no HTTP fetch is issued and the list is empty.
C20_UnconfiguredSkipsFetch ==
    \A c \in Callers :
      ~Truthy(env.FAQ_API_URL) =>
        /\ lexical[c].pc # "awaitGet"
        /\ lexical[c].pc = "returned" => lexical[c].faqs = List(<<>>)

(***************************************************************************)
(* Properties of the record validation of syncFaqs.                        *)
(***************************************************************************)
\* the list the run fetched holds a record without a (truthy) id
HasMissingId == \E k \in 1..Len(sync.faqs) : ~HasFaqId(sync.faqs[k])

\* C21: when a fetched record has no id, syncFaqs fails with 'FAQ missing
\* required id field' while the records are built: no record is built, no
\* embedding call is issued, upsertPoints is not called and the points of the
\* index are as they were before the run, whatever valid records the list
\* holds besides.
C21_MissingIdFailsEarly ==
    HasMissingId =>
      /\ sync.pc = "failed" /\ sync.failedAt = "buildRecords"
      /\ sync.err = "FAQ missing required id field"
      /\ sync.faqData = <<>> /\ sync.report = Null
      /\ batch.pc = "idle" /\ remoteCalls = 0 /\ pending = {}
      /\ upsert.pc = "idle"
      /\ index = sync.before.index

\* a run failed on a list whose first record is valid and whose second
\* record has no id
C21_Witness ==
    /\ sync.pc = "failed"
    /\ Len(sync.faqs) = 2
    /\ HasFaqId(sync.faqs[1]) /\ ~HasFaqId(sync.faqs[2])

(***************************************************************************)
(* Properties of upsertPoints' validation and of the dimension settings.   *)
(***************************************************************************)
\* the points the current upsertPoints call was handed
GivenTo(u) == IF IsArr(u.arg) THEN u.arg.items ELSE <<>>
UpsertGiven == GivenTo(upsert)

\* a point with a non-empty id and a vector that is an array
PointValid(p) == p.id \notin {Undef, Null, Str(<<>>)} /\ IsArr(p.vector)

\* C24: upsertPoints returns at once on a missing or empty list, without
\* taking the client; when some point of the list has no id or no array
\* vector the call throws with nothing prepared and nothing written; when
\* every point is valid, every point is prepared and, once acknowledged,
\* stored, the points whose vector length differs from the expected
\* dimension included (they are only warned about).  The index changes
\* only by the acknowledged upsert of a fully validated list.
C24_UpsertValidation ==
    /\ [](upsert.pc # "idle" =>
            LET ps == UpsertGiven
                n == Len(ps)
            IN /\ ps = <<>> => upsert.pc = "returned" /\ upsert.prepared = <<>>
               /\ (\E k \in 1..n : ~PointValid(ps[k])) =>
                    /\ upsert.pc = "threw" /\ upsert.prepared = <<>>
                    /\ upsert.err \in {"missing ID", "missing or invalid vector"}
               /\ (ps # <<>> /\ \A k \in 1..n : PointValid(ps[k])) =>
                    /\ Len(upsert.prepared) = n
                    /\ \A k \in 1..n : upsert.prepared[k].vector = ps[k].vector
                    /\ upsert.warned = {k \in 1..n : ps[k].vector.len # EXPECTED_DIMENSIONS}
                    /\ upsert.pc = "returned" =>
                         \A k \in 1..n : upsert.prepared[k].id \in DOMAIN index)
    /\ [][/\ index' # index =>
               /\ upsert.pc = "awaitUpsert" /\ upsert'.pc = "returned"
               /\ \A k \in 1..Len(UpsertGiven) : PointValid(UpsertGiven[k])
               /\ index' = ApplyUpsert(index, upsert.prepared)
          /\ (upsert.pc # "awaitUpsert" /\ upsert' # upsert /\ upsert'.prepared = <<>>) =>
               index' = index
          /\ (upsert.pc # "awaitUpsert" /\ upsert' # upsert /\ GivenTo(upsert') = <<>>) =>
               qdrantClient' = qdrantClient]_vars

\* an acknowledged upsert has stored a point whose vector has not the
\* expected length, after warning about it
C24_Witness ==
    /\ upsert.pc = "returned"
    /\ \E k \in upsert.warned :
         /\ upsert.prepared[k].id \in DOMAIN index
         /\ index[upsert.prepared[k].id].vector.len = README_DIMENSIONS

\* C25 (as claimed): under every configuration, the dimension of a
\* collection that ensureCollection has created is the dimension that
\* upsertPoints expects of a point's vector.
C25_SingleDimension ==
    (sync.before # Null /\ ~sync.before.collection.exists /\ collection.exists) =>
      collection.size = EXPECTED_DIMENSIONS

\* the combined text of a record when `question` and `answer` stand in for
\* the primary question and answer that the record lacks
AliasResolvedText(faq) ==
    LET part(v) == IF Truthy(v) THEN <<v.s>> ELSE <<>>
        parts == part(JsOr(faq.questionEnglish, faq.question))
                 \o part(JsOr(faq.answerEnglish, faq.answer))
                 \o part(faq.questionHindi) \o part(faq.answerHindi)
    IN Trim(Join(parts, <<" ">>))

\* C26 (as claimed): the text syncFaqs combines for a record is the
\* space-joined sequence of its primary question, primary answer, secondary
\* question and secondary answer, with the older names question/answer
\* accepted for the primary pair.
C26_CombineResolvesAliases ==
    \A k \in 1..Len(sync.faqData) :
      sync.faqData[k].text = Str(AliasResolvedText(sync.faqs[k]))

(***************************************************************************)
(* Properties of overlapping requests on the FAQ cache.                    *)
(***************************************************************************)
\* getFaqContext of conversation c has its FAQ list in this step
LexReturns(c) == lexical'[c] # lexical[c] /\ lexical'[c].pc = "returned"

\* the fetch of conversation c succeeds in this step
LexFetchSucceeds(c) ==
    lexical[c].pc = "awaitGet" /\ lexical'[c].pc = "returned" /\ ~lexical'[c].failed

\* a request that finds no live entry issues its own fetch, whatever the
\* other conversation is doing
MissFetches(c) ==
    (LexEnters(c) /\ Truthy(Lex_FAQ_API_URL) /\ ~(cache.value # Null /\ now < cache.expiresAt))
      => lexical'[c].pc = "awaitGet" /\ cache' = cache

\* the cache changes only when a fetch succeeds, and then to the list and
\* the expiry of that one fetch
SlotReplacedWhole ==
    cache' # cache =>
      \E c \in Callers :
        /\ LexFetchSucceeds(c)
        /\ cache' = [value |-> lexical'[c].faqs,
                     expiresAt |-> lexical[c].now + DEFAULT_CACHE_TTL]

\* C28 (as claimed): under every interleaving of two conversations, a miss
\* issues its own fetch, the cache is replaced as a whole by one successful
\* fetch, and every request returns a list that a successful fetch has
\* returned: the list the cache holds once the request has returned.  (With
\* an empty source URL no request reaches the cache; see C20.)
C28_ReturnsFetchedList ==
    [][/\ \A c \in Callers : MissFetches(c)
       /\ SlotReplacedWhole
       /\ \A c \in Callers :
            LexReturns(c) /\ Truthy(Lex_FAQ_API_URL) =>
              lexical'[c].faqs = cache'.value]_vars

\* C28 (amended): as above, except that a request whose fetch fails while
\* nothing is cached returns the empty list, which no fetch returned.
C28_ConcurrentRequests ==
    [][/\ \A c \in Callers : MissFetches(c)
       /\ SlotReplacedWhole
       /\ \A c \in Callers :
            LexReturns(c) /\ Truthy(Lex_FAQ_API_URL) =>
              \/ lexical'[c].faqs = cache'.value
              \/ /\ lexical'[c].failed /\ cache'.value = Null
                 /\ lexical'[c].faqs = List(<<>>)]_vars

\* both conversations missed at the same time, each fetched, and the fetch
\* that completed last has replaced the list of the other
C28_Witness ==
    /\ \A c \in Callers :
         lexical[c].pc = "returned" /\ ~lexical[c].hit /\ ~lexical[c].failed
    /\ Truthy(Lex_FAQ_API_URL)
    /\ lexical["c1"].now = lexical["c2"].now
    /\ lexical["c1"].faqs # lexical["c2"].faqs
    /\ cache.value = lexical["c2"].faqs
    /\ cache.expiresAt = lexical["c2"].now + DEFAULT_CACHE_TTL

(***************************************************************************)
(* Properties of the two strategies side by side.                          *)
(***************************************************************************)
\* the vector getFaqContext takes a step
VectorStep == query' # query

\* C29: no step of the vector getFaqContext, whether its embedding or its
\* search succeeds or fails, issues the source fetch or changes the FAQ
\* cache; the cache changes only when a fetch of the lexical strategy
\* succeeds.
C29_VectorLeavesCache ==
    [][/\ VectorStep => cache' = cache /\ lexical' = lexical
       /\ cache' # cache => \E c \in Callers : LexFetchSucceeds(c)]_vars

\* a vector query has returned a context while the cache was never filled
\* and no source fetch is in flight
C29_Witness ==
    /\ query.pc = "returned" /\ query.out # Null
    /\ cache = CacheEmpty
    /\ \A c \in Callers : lexical[c].pc = "idle"

(***************************************************************************)
(* Properties of testConnection, the client and the sync script.           *)
(***************************************************************************)
\* the server was reached and rejected the request: HTTP 401 or 403, or a
\* message saying Forbidden
RejectedAsUnauthorized(e) ==
    e.status \in {Num(401), Num(403)} \/ Includes(e.message.s, sForbidden)

\* the current testConnection call met this failure of the client
TestFailedWith(e) == adapter.op = "testConnection" /\ adapter.failure = e

\* C22: testConnection never throws, and when the client call it awaits
\* (getCollections or getCollection) is rejected as unauthorized it resolves
\* to {connected: false, collectionExists: false, error: <the message>}.
C22_UnauthorizedDescriptor ==
    /\ adapter.op = "testConnection" => adapter.pc # "threw"
    /\ \A e \in BackendErrors :
         TestFailedWith(e) /\ RejectedAsUnauthorized(e) =>
           /\ adapter.pc = "returned"
           /\ adapter.out = Obj([connected |-> FALSE, collectionExists |-> FALSE,
                                 error |-> IF e.message.s = <<>> THEN Str(sError)
                                           ELSE e.message])

\* testConnection has answered a 401 without message with its descriptor
C22_Witness ==
    /\ TestFailedWith(BackendError(<<>>, Num(401)))
    /\ adapter.pc = "returned"
    /\ adapter.out.t = "obj" /\ ~adapter.out.f.connected

\* C30 (as claimed): every testConnection call that has resolved has
\* resolved to an object with a boolean `connected`.
C30_AlwaysDescriptor ==
    (adapter.op = "testConnection" /\ adapter.pc \in {"returned", "threw"}) =>
      /\ adapter.pc = "returned"
      /\ adapter.out.t = "obj"
      /\ adapter.out.f.connected \in BOOLEAN

\* C27: the process has at most one client, the one getQdrantClient made on
\* first use: every adapter operation in flight or finished holds that
\* instance, an operation that has issued a client call finds the client
\* made, and once made the client is never replaced or reset.
C27_ClientSingleton ==
    /\ [](qdrantClient \in {Null, [made |-> 1]})
    /\ [](adapter.pc # "idle" => adapter.client = qdrantClient)
    /\ []((adapter.pc # "idle" \/ search.pc # "idle" \/ upsert.prepared # <<>>)
            => qdrantClient # Null)
    /\ [][qdrantClient # Null => qdrantClient' = qdrantClient]_vars

\* deletePoint, upsertPoints and searchVectors have all completed on the one
\* client
C27_Witness ==
    /\ qdrantClient = [made |-> 1]
    /\ adapter.op = "deletePoint" /\ adapter.pc = "returned"
    /\ upsert.pc = "returned" /\ Len(upsert.prepared) = 1
    /\ search.pc = "returned"

\* main() resumes in this step and finds that a step of the sync path failed
ScriptSeesFailure ==
    /\ script' # script
    /\ \/ script.pc = "test1" /\ ~Connected(adapter.out)
       \/ script.pc = "ensure" /\ adapter.pc = "threw"
       \/ script.pc = "sync" /\ sync.pc = "failed"

\* C23: the script exits with 1 as soon as the first connection test is not
\* connected, ensureQdrantCollection throws or syncFaqs throws; it exits
\* with 0 only when syncFaqs has returned its report; and syncFaqs is
\* entered only after a first test that said connected.
C23_ScriptExitCodes ==
    /\ [](/\ script.pc = "exited" <=> script.exit \in {Num(0), Num(1)}
          /\ script.exit = Num(0) =>
               sync.pc = "done" /\ sync.report # Null /\ script.result = sync.report
          /\ sync.pc # "idle" => Connected(script.first)
          /\ (/\ script.pc = "exited"
              /\ \/ ~Connected(script.first)
                 \/ adapter.op = "ensureQdrantCollection" /\ adapter.pc = "threw"
                 \/ sync.pc = "failed") => script.exit = Num(1))
    /\ [][ScriptSeesFailure =>
            /\ script'.pc = "exited" /\ script'.exit = Num(1)
            /\ sync' = sync /\ adapter' = adapter]_vars

\* the script has exited with 1 after syncFaqs failed in the embedding stage
C23_Witness ==
    /\ script.pc = "exited" /\ script.exit = Num(1)
    /\ Connected(script.first)
    /\ sync.pc = "failed" /\ sync.failedAt = "generateEmbeddingsBatch"

(***************************************************************************)
(* Properties of the pairing of records and embeddings in syncFaqs.        *)
(***************************************************************************)
\* the run has called upsertPoints
ReachedUpsert == \E k \in 1..Len(sync.log) : sync.log[k] = "upsertPoints"

EmbedCallFails(c) ==
    /\ c.owner = "batch" /\ c.gen = batch.gen /\ batch.pc = "awaitAll"
    /\ c \notin pending'
    /\ ~(c.pos \in DOMAIN batch'.results /\ batch'.results[c.pos].st = "resolved")

\* C32: when an embedding call of a batch fails, generateEmbeddingsBatch
\* throws; from then on it stays failed: it issues no further embedding call
\* (no later batch), arms no timer and returns no vector list; and the
\* syncFaqs run that called it has failed at that stage without calling
\* upsertPoints and without changing the index.
C32_BatchFailsWhole ==
    /\ [](batch.pc = "threw" =>
            /\ batch.err # ""
            /\ batch.caller = "sync" =>
                 /\ sync.pc = "failed" /\ sync.failedAt = "generateEmbeddingsBatch"
                 /\ sync.report = Null
                 /\ ~ReachedUpsert /\ upsert.pc = "idle"
                 /\ index = sync.before.index)
    /\ [][/\ \A c \in pending : EmbedCallFails(c) => batch'.pc = "threw"
          /\ batch.pc = "threw" /\ sync'.run = sync.run =>
               /\ batch'.pc = "threw"
               /\ batch'.log = batch.log /\ batch'.embeddings = batch.embeddings
               /\ remoteCalls' = remoteCalls /\ pending' \subseteq pending]_vars

\* a run over more records than one batch holds failed because the provider
\* rejected a call of its first batch; the other calls of that batch have
\* been answered since and no call of the second batch was issued
C32_Witness ==
    /\ batch.pc = "threw" /\ batch.caller = "sync" /\ batch.err = "RemoteError"
    /\ Len(batch.texts) > batchSize /\ batch.i = 0
    /\ pending = {} /\ remoteCalls = batchSize
    /\ sync.pc = "failed"

(***************************************************************************)
(* Properties of the cache slot after a failed fetch.                      *)
(***************************************************************************)
\* the slot holds no value or its value has expired
SlotExpired == cache.value = Null \/ now >= cache.expiresAt

\* C33: a fetch of the lexical strategy that fails leaves the cache slot as
\* it is, value and expiresAt; a call that enters fetchFaqs (with a source
\* URL) while the slot is empty or expired issues the source fetch and takes
\* nothing from the slot; and a fetch that succeeds replaces the slot by its
\* own list with an expiry of its start time plus the TTL.
C33_FailedFetchKeepsSlot ==
    [][\A c \in Callers :
         /\ LexFetchFails(c) => cache' = cache
         /\ LexEnters(c) /\ Truthy(Lex_FAQ_API_URL) /\ SlotExpired =>
              lexical'[c].pc = "awaitGet" /\ cache' = cache
         /\ LexFetchSucceeds(c) =>
              cache' = [value |-> lexical'[c].faqs,
                        expiresAt |-> lexical[c].now + DEFAULT_CACHE_TTL]]_vars

\* a fetch made after the entry had expired failed and was answered from
\* the stale list; a call that began later fetched again, and its answer has
\* replaced the stale list
C33_Witness ==
    \E c, d \in Callers :
      /\ lexical[c].pc = "returned" /\ lexical[c].failed
      /\ lexical[c].faqs.items # <<>>
      /\ lexical[d].pc = "returned" /\ ~lexical[d].failed /\ ~lexical[d].hit
      /\ lexical[d].now > lexical[c].now
      /\ cache.value = lexical[d].faqs /\ cache.value # lexical[c].faqs
      /\ cache.expiresAt = lexical[d].now + DEFAULT_CACHE_TTL

(***************************************************************************)
(* Properties of the order in which overlapping fetches write the cache.   *)
(***************************************************************************)
\* C34 (as claimed): expiresAt never decreases, and an entry is not yet
\* expired in the step that writes it.
C34_ExpiryMonotone ==
    [][/\ cache'.expiresAt >= cache.expiresAt
       /\ cache' # cache => cache'.expiresAt > now]_vars

\* C34 (amended): the slot is written by every successful fetch in the order
\* of completion (last writer wins), with an expiry of that fetch's start
\* time plus the TTL whatever the slot held; so expiresAt decreases exactly
\* when the completing fetch started before the fetch whose result the slot
\* holds, and the entry is live when written exactly when the fetch took
\* less than the TTL.  expiresAt is never more than the TTL ahead of the
\* clock.
C34_LastWriterWins ==
    /\ [](cache.expiresAt <= now + DEFAULT_CACHE_TTL)
    /\ [][/\ \A c \in Callers :
               LexFetchSucceeds(c) =>
                 /\ cache'.expiresAt = lexical[c].now + DEFAULT_CACHE_TTL
                 /\ cache'.value = lexical'[c].faqs
          /\ cache'.expiresAt # cache.expiresAt => \E c \in Callers : LexFetchSucceeds(c)
          /\ cache'.expiresAt < cache.expiresAt =>
               \E c \in Callers :
                 /\ LexFetchSucceeds(c)
                 /\ lexical[c].now + DEFAULT_CACHE_TTL < cache.expiresAt]_vars

\* two fetches overlapped; the one that started later completed first, and
\* the slot now holds the other list of the fetch that started earlier, with
\* the earlier expiry
C34_Witness ==
    \E c, d \in Callers :
      /\ lexical[c].pc = "returned" /\ ~lexical[c].failed /\ ~lexical[c].hit
      /\ lexical[d].pc = "returned" /\ ~lexical[d].failed /\ ~lexical[d].hit
      /\ Truthy(Lex_FAQ_API_URL)
      /\ lexical[c].now < lexical[d].now
      /\ lexical[c].faqs # lexical[d].faqs
      /\ cache = [value |-> lexical[c].faqs,
                  expiresAt |-> lexical[c].now + DEFAULT_CACHE_TTL]

(***************************************************************************)
(* Properties of the results of the vector getFaqContext.                  *)
(***************************************************************************)
\* the query handed to getFaqContext is missing, no string, or blank
QueryBlank ==
    \/ ~IsStr(query.q)
    \/ \A k \in 1..Len(query.q.s) : IsSpace(query.q.s[k])

\* the contexts formatFaqContext builds from the non-empty results a search
\* over the index can give
SearchContexts ==
    { Str(formatFaqContext([k \in 1..Len(a.hits) |->
                              SearchResult(WithPayload(index, a.hits)[k])])) :
        a \in {b \in SearchAnswers(index, DEFAULT_LIMIT, SCORE_THRESHOLD) :
                 b.t = "ok" /\ b.hits # <<>>} }

\* C35: for a query that is missing, no string or blank, the vector
\* getFaqContext returns null at once: no embedding call is issued and no
\* search is made; and a value it returns is either null or a non-empty
\* string that begins with "FAQ 1:" and was formatted from at least one
\* search result.
C35_NullOrContext ==
    /\ query.pc # "idle" /\ QueryBlank =>
         /\ query.pc = "returned" /\ query.out = Null /\ query.err = ""
         /\ remoteCalls = 0 /\ pending = {}
         /\ qdrantClient = Null
    /\ query.pc = "returned" /\ query.out # Null =>
         /\ IsStr(query.out) /\ query.out.s # <<>>
         /\ StartsWith(query.out.s, sFaq \o <<"1", ":">>)
         /\ query.out \in SearchContexts
         /\ remoteCalls = 1 /\ qdrantClient # Null

\* a query with white space around it was embedded and searched, and a
\* context was returned
C35_Witness ==
    /\ query.pc = "returned"
    /\ query.q = Str(<<" ", "q", " ">>)
    /\ query.out # Null
    /\ remoteCalls = 1
=============================================================================
